---- MODULE Spec2Model ----
(***************************************************************************)
(* A model of react-json-form-autofill: the ingest-transform-merge         *)
(* pipeline (processJsonData), the merge engine (mergeData) and the three  *)
(* state bindings (useJsonAutoFill, useJsonAutoFillRHF,                    *)
(* useJsonAutoFillFormik).                                                 *)
(*                                                                         *)
(* JavaScript values are tagged pairs <<tag, payload>>:                    *)
(*   <<"prim", s>>  <<"null", "null">>  <<"arr", seq>>  <<"date", s>>      *)
(*   <<"regexp", s>>  <<"obj", props>>  <<"proto", key>>                    *)
(* An object is its own-property list: a sequence of <<key, value>> pairs  *)
(* with distinct keys, in insertion order (the order Object.keys yields).  *)
(* <<"proto", k>> is the member k every plain object inherits from         *)
(* Object.prototype.                                                       *)
(***************************************************************************)
EXTENDS Integers, Sequences, FiniteSets, TLC

\* ------------------------------------------------------------------------
\* Bounds of the model
\* ------------------------------------------------------------------------

\* Own properties, counted at every depth, of current and incoming together.
MaxProps == 3

\* ------------------------------------------------------------------------
\* JavaScript objects
\* ------------------------------------------------------------------------

EmptyObj == <<>>

Prim(s) == <<"prim", s>>
ObjVal(o) == <<"obj", o>>

\* Object.keys(o), as a set.
Keys(o) == {o[i][1] : i \in DOMAIN o}

\* Object.prototype.hasOwnProperty.call(o, k)
HasOwn(o, k) == k \in Keys(o)

\* The members every plain object inherits from Object.prototype.
ObjectPrototypeKeys ==
    {"constructor", "__proto__", "hasOwnProperty", "isPrototypeOf",
     "propertyIsEnumerable", "toLocaleString", "toString", "valueOf"}

\* o[k] for an own property k.
GetOwn(o, k) == LET i == CHOOSE j \in DOMAIN o : o[j][1] = k IN o[i][2]

Undefined == <<"undefined", "undefined">>
Null == <<"null", "null">>

\* o[k]: the own property, else the member inherited from Object.prototype,
\* else undefined.
Get(o, k) ==
    IF HasOwn(o, k) THEN GetOwn(o, k)
    ELSE IF k \in ObjectPrototypeKeys THEN <<"proto", k>>
    ELSE Undefined

\* k in o: true for own properties and for inherited ones.
InOp(k, o) == HasOwn(o, k) \/ k \in ObjectPrototypeKeys

\* o[k] = v: an existing own property keeps its place, a new one is appended.
Put(o, k, v) ==
    IF HasOwn(o, k)
    THEN [i \in DOMAIN o |-> IF o[i][1] = k THEN <<k, v>> ELSE o[i]]
    ELSE Append(o, <<k, v>>)

\* { ...a, ...b }
RECURSIVE PutAll(_, _)
PutAll(a, b) ==
    IF b = <<>> THEN a
    ELSE PutAll(Put(a, Head(b)[1], Head(b)[2]), Tail(b))

\* The mutant of Spread: the properties of a win over those of b.
SpreadFirstWins(a, b) == PutAll(PutAll(EmptyObj, b), a)

Spread(a, b) == PutAll(PutAll(EmptyObj, a), b)

\* Two objects with the same own properties, whatever their order.
SameObj(a, b) ==
    /\ Keys(a) = Keys(b)
    /\ \A k \in Keys(a) : GetOwn(a, k) = GetOwn(b, k)

\* ------------------------------------------------------------------------
\* mergeData
\* ------------------------------------------------------------------------

\* typeof value
TypeOf(value) ==
    CASE value[1] \in {"obj", "null", "arr", "date", "regexp"} -> "object"
      [] value[1] = "proto" ->
            IF value[2] = "__proto__" THEN "object" ELSE "function"
      [] value[1] = "undefined" -> "undefined"
      [] OTHER -> "primitive"

IsArray(value) == value[1] = "arr"
IsDate(value) == value[1] = "date"
IsRegExp(value) == value[1] = "regexp"

isPlainObject(value) ==
    /\ TypeOf(value) = "object"
    /\ value # Null
    /\ ~IsArray(value)
    /\ ~IsDate(value)
    /\ ~IsRegExp(value)

\* The mutant of deepMerge: the shallow merge.
deepMergeShallow(target, source) == PutAll(PutAll(EmptyObj, target), source)

RECURSIVE deepMerge(_, _)
deepMerge(target, source) ==
    LET step(result, i) ==
            LET key == source[i][1]
                targetVal == Get(target, key)
                sourceVal == source[i][2]
            IN  IF isPlainObject(targetVal) /\ isPlainObject(sourceVal)
                THEN Put(result, key, ObjVal(deepMerge(targetVal[2], sourceVal[2])))
                ELSE Put(result, key, sourceVal)
        loop[i \in 0..Len(source)] ==
            IF i = 0 THEN Spread(target, EmptyObj) ELSE step(loop[i - 1], i)
    IN  loop[Len(source)]

\* Object.keys(current).reduce(...) of the strict case.
strictFiltered(current, incoming) ==
    LET loop[i \in 0..Len(current)] ==
            IF i = 0 THEN EmptyObj
            ELSE LET key == current[i][1]
                 IN  IF InOp(key, incoming)
                     THEN Put(loop[i - 1], key, Get(incoming, key))
                     ELSE loop[i - 1]
    IN  loop[Len(current)]

\* The mutant of mergeReplace: the shallow merge.
mergeReplaceKeepsCurrent(current, incoming) == Spread(current, incoming)

mergeReplace(current, incoming) == incoming

mergeStrict(current, incoming) ==
    Spread(current, strictFiltered(current, incoming))

mergeData(current, incoming, strategy) ==
    CASE strategy = "replace" -> mergeReplace(current, incoming)
      [] strategy = "strict" -> mergeStrict(current, incoming)
      [] strategy = "deep" -> deepMerge(current, incoming)
      [] OTHER -> Spread(current, incoming)

MergeStrategies == {"merge", "replace", "strict", "deep"}

\* The object mergeData returns: its argument incoming itself ("incoming"),
\* or an object the call created ("new": an object literal, or the copy
\* deepMerge starts from).
mergeDataReturns(strategy) ==
    CASE strategy = "replace" -> "incoming"
      [] OTHER -> "new"

\* ------------------------------------------------------------------------
\* JsonAutoFillError and thrown values
\* ------------------------------------------------------------------------

\* A thrown value: kind "JsonAutoFillError" (an Error with a code), "Error"
\* (any other Error) or "other" (a thrown value that is not an Error).
Err(kind, code, message) == [kind |-> kind, code |-> code, message |-> message]

NoErr == Err("none", "", "")

JsonAutoFillError(message, code) == Err("JsonAutoFillError", code, message)

JsonAutoFillErrorCode ==
    {"PARSE_ERROR", "VALIDATION_ERROR", "FILE_READ_ERROR", "FILE_TOO_LARGE",
     "INVALID_FILE_TYPE"}

\* ------------------------------------------------------------------------
\* parseJson
\* ------------------------------------------------------------------------

\* A text is what JSON.parse makes of it: a SyntaxError or a value.
InvalidText == <<"invalid", "">>
JsonText(value) == <<"json", value>>

DANGEROUS_KEYS == {"__proto__", "constructor", "prototype"}

\* The first dangerous key assertNoPrototypePollution meets, as <<key>>;
\* <<>> when it meets none. Object.keys of an array are its indices.
\* The mutant of firstDangerousKey: arrays are not descended into.
RECURSIVE firstDangerousKeySkipsArrays(_)
firstDangerousKeySkipsArrays(obj) ==
    IF obj[1] # "obj" THEN <<>>
    ELSE LET props == obj[2]
             loop[i \in 0..Len(props)] ==
                 IF i = 0 THEN <<>>
                 ELSE IF loop[i - 1] # <<>> THEN loop[i - 1]
                 ELSE IF props[i][1] \in DANGEROUS_KEYS THEN <<props[i][1]>>
                 ELSE firstDangerousKeySkipsArrays(props[i][2])
         IN  loop[Len(props)]

RECURSIVE firstDangerousKey(_)
firstDangerousKey(obj) ==
    IF TypeOf(obj) # "object" \/ obj = Null THEN <<>>
    ELSE IF obj[1] = "obj"
    THEN LET props == obj[2]
             loop[i \in 0..Len(props)] ==
                 IF i = 0 THEN <<>>
                 ELSE IF loop[i - 1] # <<>> THEN loop[i - 1]
                 ELSE IF props[i][1] \in DANGEROUS_KEYS THEN <<props[i][1]>>
                 ELSE firstDangerousKey(props[i][2])
         IN  loop[Len(props)]
    ELSE IF obj[1] = "arr"
    THEN LET elems == obj[2]
             loop[i \in 0..Len(elems)] ==
                 IF i = 0 THEN <<>>
                 ELSE IF loop[i - 1] # <<>> THEN loop[i - 1]
                 ELSE firstDangerousKey(elems[i])
         IN  loop[Len(elems)]
    ELSE <<>>

Returned(value) == [ok |-> TRUE, value |-> value, error |-> NoErr]
Thrown(error) == [ok |-> FALSE, value |-> EmptyObj, error |-> error]

\* The mutant of parseJson: a top-level array is let through.
parseJsonAcceptsArrays(text) ==
    IF text[1] = "invalid"
    THEN Thrown(JsonAutoFillError("Invalid JSON file", "PARSE_ERROR"))
    ELSE LET parsed == text[2]
         IN  IF TypeOf(parsed) # "object" \/ parsed = Null
             THEN Thrown(JsonAutoFillError(
                      "JSON must be a top-level object (not an array or primitive)",
                      "PARSE_ERROR"))
             ELSE Returned(parsed[2])

parseJson(text) ==
    IF text[1] = "invalid"
    THEN Thrown(JsonAutoFillError("Invalid JSON file", "PARSE_ERROR"))
    ELSE LET parsed == text[2]
             bad == firstDangerousKey(parsed)
         IN  IF TypeOf(parsed) # "object" \/ parsed = Null \/ IsArray(parsed)
             THEN Thrown(JsonAutoFillError(
                      "JSON must be a top-level object (not an array or primitive)",
                      "PARSE_ERROR"))
             ELSE IF bad # <<>>
             THEN Thrown(JsonAutoFillError(
                      "Potentially dangerous key \"" \o bad[1] \o "\" found in JSON",
                      "PARSE_ERROR"))
             ELSE Returned(parsed[2])

\* ------------------------------------------------------------------------
\* flattenObject
\* ------------------------------------------------------------------------

\* Object.keys(value) of a value flattenObject descends into: the own
\* properties of a plain object; a RegExp has none.
OwnProps(value) == IF value[1] = "obj" THEN value[2] ELSE EmptyObj

\* The mutant of flattenInto: no value is descended into.
flattenIntoOneLevel(obj, parentKey, result) == PutAll(result, obj)

RECURSIVE flattenInto(_, _, _)
flattenInto(obj, parentKey, result) ==
    LET loop[i \in 0..Len(obj)] ==
            IF i = 0 THEN result
            ELSE LET key == obj[i][1]
                     newKey == IF parentKey # "" THEN parentKey \o "." \o key
                               ELSE key
                     value == obj[i][2]
                 IN  IF /\ value # Null
                        /\ TypeOf(value) = "object"
                        /\ ~IsArray(value)
                        /\ ~IsDate(value)
                     THEN flattenInto(OwnProps(value), newKey, loop[i - 1])
                     ELSE Put(loop[i - 1], newKey, value)
    IN  loop[Len(obj)]

flattenObject(obj) == flattenInto(obj, "", EmptyObj)

\* ------------------------------------------------------------------------
\* applyMapping
\* ------------------------------------------------------------------------

\* The optional fieldMap argument: absent, or a mapping of source keys to
\* destination keys.
NoMap == [given |-> FALSE, map |-> EmptyObj]
FieldMap(m) == [given |-> TRUE, map |-> m]

\* String(Object.prototype[k]): the property key an inherited member makes.
ProtoKeyString(k) ==
    CASE k = "__proto__" -> "[object Object]"
      [] k = "constructor" -> "function Object() { [native code] }"
      [] OTHER -> "function " \o k \o "() { [native code] }"

\* fieldMap[key] ?? key
mappedKeyOf(map, key) ==
    IF HasOwn(map, key) THEN GetOwn(map, key)
    ELSE IF key \in ObjectPrototypeKeys THEN ProtoKeyString(key)
    ELSE key

\* The mutant of applyMapping: every key is kept.
applyMappingKeepsKeys(data, fieldMap) == data

applyMapping(data, fieldMap) ==
    IF ~fieldMap.given THEN data
    ELSE LET loop[i \in 0..Len(data)] ==
                 IF i = 0 THEN EmptyObj
                 ELSE Put(loop[i - 1], mappedKeyOf(fieldMap.map, data[i][1]),
                          data[i][2])
         IN  loop[Len(data)]

\* ------------------------------------------------------------------------
\* The bindings' error normalisation (the catch block of processJson)
\* ------------------------------------------------------------------------

\* The mutant of autoFillErrorOf: every failure is wrapped anew.
autoFillErrorAlwaysWrapped(error) ==
    JsonAutoFillError(
        IF error.kind \in {"Error", "JsonAutoFillError"} THEN error.message
        ELSE "Unknown error",
        "PARSE_ERROR")

autoFillErrorOf(error) ==
    IF error.kind = "JsonAutoFillError" THEN error
    ELSE JsonAutoFillError(
             IF error.kind = "Error" THEN error.message ELSE "Unknown error",
             "PARSE_ERROR")

\* ------------------------------------------------------------------------
\* The bounded universe of objects
\* ------------------------------------------------------------------------

KeyOrder == <<"name", "email", "toString">>

Leaves ==
    {Prim(""), Prim("Bob"), Null, <<"arr", <<Prim("x")>>>>, <<"date", "d">>,
     <<"regexp", "r">>}

\* Objs(n, i): the objects with exactly n own properties counted at every
\* depth, whose top-level keys are among KeyOrder[i..], in that order.
\* Vals(s): the values that, with the key holding them, count s properties.
RECURSIVE Objs(_, _), Vals(_)
Objs(n, i) ==
    IF n = 0 THEN {EmptyObj}
    ELSE IF i > Len(KeyOrder) THEN {}
    ELSE Objs(n, i + 1) \cup
         UNION {{<<<<KeyOrder[i], v>>>> \o rest :
                    v \in Vals(s), rest \in Objs(n - s, i + 1)} : s \in 1..n}

Vals(s) ==
    IF s = 1 THEN Leaves \cup {ObjVal(EmptyObj)}
    ELSE {ObjVal(o) : o \in Objs(s - 1, 1)}

ObjsOfSize(n) == Objs(n, 1)

\* The pairs (current, incoming) of MaxProps properties at most.
MergePairs ==
    UNION {UNION {ObjsOfSize(a) \X ObjsOfSize(b) : b \in 0..(MaxProps - a)} :
              a \in 0..MaxProps}

\* ------------------------------------------------------------------------
\* State
\* ------------------------------------------------------------------------

VARIABLES
    binding,    \* the hook in use
    opts,       \* the options given to the hook (optionsRef.current)
    container,  \* the value of the external state container
    inv,        \* the processJson invocations, by name
    current,    \* mergeData's first argument
    incoming,   \* mergeData's second argument
    strategy,   \* mergeData's third argument
    merged,     \* what mergeData returned, NotYet before the call
    mergedRef,  \* which object that is: "incoming" or "new"
    coreArgs,   \* the arguments of the core function applied
    coreOut,    \* what the core function returned, NotYet before the call
    initialDataRef,    \* initialDataRef.current of useJsonAutoFill
    setupInitialData,  \* the initialData of the hook's first render
    resets,     \* the calls of reset(), in order
    ioOptions,  \* the options of the paste and file adapters
    ioReading,  \* the files whose read has started and not ended
    ioLog       \* what the adapter has done, in order

hookVars == <<binding, opts>>
pipeVars == <<binding, opts, container, inv>>
mergeVars == <<current, incoming, strategy, merged, mergedRef>>
coreVars == <<coreArgs, coreOut>>
resetVars == <<initialDataRef, setupInitialData, resets>>
ioVars == <<ioOptions, ioReading, ioLog>>
vars == <<binding, opts, container, inv, current, incoming, strategy, merged,
          mergedRef, coreArgs, coreOut, initialDataRef, setupInitialData,
          resets, ioOptions, ioReading, ioLog>>

NotYet == <<"notyet">>
Unused == <<"unused">>

\* The optional initialData argument of useJsonAutoFill.
NoInitialData == [given |-> FALSE, value |-> <<>>]
InitialData(value) == [given |-> TRUE, value |-> value]

\* The state of reset() and of the adapters where they take no part.
NoReset ==
    /\ initialDataRef = NoInitialData
    /\ setupInitialData = NoInitialData
    /\ resets = <<>>

NoIo ==
    /\ ioOptions = Unused
    /\ ioReading = {}
    /\ ioLog = <<>>

\* ------------------------------------------------------------------------
\* The hooks' configuration and environment
\* ------------------------------------------------------------------------

Bindings == {"useJsonAutoFill", "useJsonAutoFillRHF", "useJsonAutoFillFormik"}

\* The caller-supplied callbacks of JsonAutoFillOptions.
Callbacks ==
    {"transform", "validate", "onBeforeFill", "onAfterFill", "onSuccess", "onError"}

\* The values a thrown failure of a callback or of a mutator is drawn from.
ThrownValues ==
    {JsonAutoFillError("custom", "FILE_READ_ERROR"),
     Err("Error", "", "boom"),
     Err("other", "", "")}

\* What a mutator or a void callback (onAfterFill, onSuccess, onError) does:
\* return (NoErr) or throw.
VoidOutcomes == {NoErr, JsonAutoFillError("custom", "FILE_READ_ERROR"),
                 Err("Error", "", "boom")}

\* The values validate and onBeforeFill return.
ReturnValues == {"true", "false", "undefined", "null", "0", "''", "1"}

\* !value
Falsy(value) == value \in {"false", "undefined", "null", "0", "''"}

\* What transform returns: its argument with the field "name" set anew.
applyTransform(mapped) == Put(mapped, "name", Prim("JANE"))

\* The invocations of processJson.
Procs == {"A", "B"}

\* jsonInput: a string or an object.
StringInput(text) == <<"string", text>>
ObjectInput(obj) == <<"object", obj>>
NoInput == <<"none", EmptyObj>>

\* An event of an invocation: a stage of the pipeline (ph "start", "end",
\* "fail"), a mutator of the container or a lifecycle callback (ph "call").
EvFull(fn, ph, data, err) == [fn |-> fn, ph |-> ph, data |-> data, err |-> err]
Ev(fn, ph) == EvFull(fn, ph, EmptyObj, NoErr)
EvData(fn, ph, data) == EvFull(fn, ph, data, NoErr)
EvErr(fn, ph, err) == EvFull(fn, ph, EmptyObj, err)

IdleInvocation ==
    [pc |-> "idle", input |-> NoInput, data |-> EmptyObj, cancelled |-> FALSE,
     error |-> NoErr, caught |-> NoErr, ret |-> "none", values |-> EmptyObj,
     result |-> "none", rejection |-> NoErr, trace |-> <<>>]

UnusedInvocation == [IdleInvocation EXCEPT !.pc = "unused"]

\* ------------------------------------------------------------------------
\* processJsonData
\* ------------------------------------------------------------------------

StageOrder == <<"transform", "validate", "onBeforeFill">>

StageIndex(stage) ==
    CASE stage = "transform" -> 1
      [] stage = "validate" -> 2
      [] stage = "onBeforeFill" -> 3
      [] OTHER -> 0

\* The mutant of callNext: of the callbacks left, the last one is called.
callNextLatest(rec, o, after) ==
    LET left == {i \in (StageIndex(after) + 1)..3 : StageOrder[i] \in o.has}
    IN  IF left = {} THEN [rec EXCEPT !.pc = "settled"]
        ELSE LET stage == StageOrder[CHOOSE i \in left : \A j \in left : i >= j]
             IN  [rec EXCEPT !.pc = stage,
                             !.trace = Append(@, EvData(stage, "start", rec.data))]

\* processJsonData after stage `after`: the next callback the options supply
\* is called with the working value and awaited; with none left the function
\* returns.
callNext(rec, o, after) ==
    LET left == {i \in (StageIndex(after) + 1)..3 : StageOrder[i] \in o.has}
    IN  IF left = {} THEN [rec EXCEPT !.pc = "settled"]
        ELSE LET stage == StageOrder[CHOOSE i \in left : \A j \in left : i <= j]
             IN  [rec EXCEPT !.pc = stage,
                             !.trace = Append(@, EvData(stage, "start", rec.data))]

\* The mutant of shouldFlatten: the Flattener runs only when flatten is true.
shouldFlattenWhenTrue(o) == o.flatten = "true"

\* options?.flatten !== false
shouldFlatten(o) == o.flatten # "false"

\* processJsonData up to its first await: parse, flatten, map.
processJsonDataBegin(rec, o) ==
    LET isString == rec.input[1] = "string"
        parsed == IF isString THEN parseJson(rec.input[2])
                  ELSE Returned(rec.input[2])
        t1 == IF isString
              THEN rec.trace \o
                   <<Ev("parse", "start"),
                     Ev("parse", IF parsed.ok THEN "end" ELSE "fail")>>
              ELSE rec.trace
        processed == IF shouldFlatten(o) THEN flattenObject(parsed.value)
                     ELSE parsed.value
        t2 == IF shouldFlatten(o)
              THEN t1 \o <<Ev("flatten", "start"), Ev("flatten", "end")>>
              ELSE t1
        mapped == applyMapping(processed, o.fieldMap)
        t3 == t2 \o <<Ev("map", "start"), Ev("map", "end")>>
    IN  IF ~parsed.ok
        THEN [rec EXCEPT !.pc = "settled", !.error = parsed.error, !.trace = t1]
        ELSE callNext([rec EXCEPT !.data = mapped, !.trace = t3], o, "map")

\* The mutant of transformReturned: what transform returned is dropped.
transformReturnedDropped(rec, o, transformed) ==
    callNext([rec EXCEPT !.trace = Append(@, Ev("transform", "end"))],
             o, "transform")

\* processJsonData resumed with transform's result, its working value from
\* here on.
transformReturned(rec, o, transformed) ==
    callNext([rec EXCEPT !.data = transformed,
                         !.trace = Append(@, Ev("transform", "end"))],
             o, "transform")

\* The mutant of validateReturned: only the value false is rejected.
validateReturnedOnlyFalse(rec, o, isValid) ==
    LET r == [rec EXCEPT !.ret = isValid,
                         !.trace = Append(@, Ev("validate", "end"))]
    IN  IF isValid = "false"
        THEN [r EXCEPT !.pc = "settled",
                       !.error = JsonAutoFillError("Validation failed",
                                                   "VALIDATION_ERROR")]
        ELSE callNext(r, o, "validate")

\* processJsonData resumed with validate's result.
validateReturned(rec, o, isValid) ==
    LET r == [rec EXCEPT !.ret = isValid,
                         !.trace = Append(@, Ev("validate", "end"))]
    IN  IF Falsy(isValid)
        THEN [r EXCEPT !.pc = "settled",
                       !.error = JsonAutoFillError("Validation failed",
                                                   "VALIDATION_ERROR")]
        ELSE callNext(r, o, "validate")

\* The mutant of onBeforeFillReturned: every falsy value cancels.
onBeforeFillReturnedFalsy(rec, shouldProceed) ==
    [rec EXCEPT !.ret = shouldProceed,
                !.trace = Append(@, Ev("onBeforeFill", "end")),
                !.cancelled = Falsy(shouldProceed),
                !.pc = "settled"]

\* processJsonData resumed with onBeforeFill's result.
onBeforeFillReturned(rec, shouldProceed) ==
    [rec EXCEPT !.ret = shouldProceed,
                !.trace = Append(@, Ev("onBeforeFill", "end")),
                !.cancelled = (shouldProceed = "false"),
                !.pc = "settled"]

\* processJsonData resumed with the failure of the callback it awaited.
callbackThrew(rec, stage, error) ==
    [rec EXCEPT !.error = error,
                !.trace = Append(@, Ev(stage, "fail")),
                !.pc = "settled"]

\* ------------------------------------------------------------------------
\* The bindings
\* ------------------------------------------------------------------------

\* A call of a mutator of the container.
Call(fn, arg) == [fn |-> fn, arg |-> arg]

Mutators == {"setFormData", "reset", "setValue", "setValues", "setFieldValue"}

\* getFieldsToSet of the React Hook Form binding.
getFieldsToSet(cur, data, strat) ==
    IF strat = "strict"
    THEN LET loop[i \in 0..Len(data)] ==
                 IF i = 0 THEN EmptyObj
                 ELSE IF InOp(data[i][1], cur)
                      THEN Put(loop[i - 1], data[i][1], data[i][2])
                      ELSE loop[i - 1]
         IN  loop[Len(data)]
    ELSE data

\* The setFieldValue calls of the Formik binding's strict case.
formikStrictCalls(values, data) ==
    LET loop[i \in 0..Len(data)] ==
            IF i = 0 THEN <<>>
            ELSE IF InOp(data[i][1], values)
                 THEN Append(loop[i - 1], Call("setFieldValue", <<data[i]>>))
                 ELSE loop[i - 1]
    IN  loop[Len(data)]

\* The mutator calls a binding issues for `data`, in order. `cur` is the
\* container's value at that time (prev, getValues()), `values` the
\* formikBag.values of the closure.
mutatorCalls(b, strat, cur, values, data) ==
    CASE b = "useJsonAutoFill" -> <<Call("setFormData", data)>>
      [] b = "useJsonAutoFillRHF" ->
            IF strat = "replace" THEN <<Call("reset", data)>>
            ELSE LET fieldsToSet == getFieldsToSet(cur, data, strat)
                 IN  [i \in 1..Len(fieldsToSet) |->
                          Call("setValue", <<fieldsToSet[i]>>)]
      [] OTHER ->
            IF strat = "replace" THEN <<Call("setValues", data)>>
            ELSE IF strat = "strict" THEN formikStrictCalls(values, data)
            ELSE <<Call("setValues", mergeData(values, data, strat))>>

\* The mutant of performCall: setFormData is given the merge with the value
\* of the closure, here the empty form, and not an updater.
performCallWithoutUpdater(cont, call, strat) ==
    CASE call.fn = "setFormData" -> mergeData(EmptyObj, call.arg, strat)
      [] call.fn \in {"reset", "setValues"} -> call.arg
      [] OTHER -> PutAll(cont, call.arg)

\* What a mutator call makes of the container. setFormData is given the
\* updater prev => mergeData(prev, data, strategy); reset and setValues set
\* the whole value; setValue and setFieldValue set one field (a field name
\* is taken as one key).
performCall(cont, call, strat) ==
    CASE call.fn = "setFormData" -> mergeData(cont, call.arg, strat)
      [] call.fn \in {"reset", "setValues"} -> call.arg
      [] OTHER -> PutAll(cont, call.arg)

performCalls(cont, calls, n, strat) ==
    LET loop[i \in 0..n] ==
            IF i = 0 THEN cont ELSE performCall(loop[i - 1], calls[i], strat)
    IN  loop[n]

\* The catch block of processJson: normalise, tell onError, return false.
\* errOut is what onError does.
handleError(rec, o, error, errOut) ==
    LET autoFillError == autoFillErrorOf(error)
        told == "onError" \in o.has
        r == [rec EXCEPT !.pc = "done", !.caught = error, !.ret = "none",
                         !.trace = IF told
                                   THEN Append(@, EvErr("onError", "call",
                                                        autoFillError))
                                   ELSE @]
    IN  IF told /\ errOut # NoErr
        THEN [r EXCEPT !.result = "rejected", !.rejection = errOut]
        ELSE [r EXCEPT !.result = "false"]

\* The mutant of LifecycleCalls: onSuccess is called before onAfterFill.
LifecycleCallsSwapped == <<"onSuccess", "onAfterFill">>

\* The lifecycle callbacks of a successful fill, in the order of their calls.
LifecycleCalls == <<"onAfterFill", "onSuccess">>

\* The try block of processJson after a non-cancelled pipeline result: the
\* mutation, then the lifecycle callbacks. failAt = 0 when no mutator call
\* throws, else the index of the call that throws mutErr; afterOut,
\* successOut and errOut are what onAfterFill, onSuccess and onError do.
applyData(rec, o, b, cont, failAt, mutErr, afterOut, successOut, errOut) ==
    LET strat == IF o.mergeStrategy = "absent" THEN "merge" ELSE o.mergeStrategy
        calls == mutatorCalls(b, strat, cont, rec.values, rec.data)
        made == IF failAt = 0 THEN Len(calls) ELSE failAt
        done == IF failAt = 0 THEN Len(calls) ELSE failAt - 1
        t1 == rec.trace \o
              [i \in 1..made |-> EvData(calls[i].fn, "call", calls[i].arg)]
        mutThrew == failAt # 0
        outOf(cb) == IF cb = "onAfterFill" THEN afterOut ELSE successOut
        first == LifecycleCalls[1]
        second == LifecycleCalls[2]
        callFirst == ~mutThrew /\ first \in o.has
        t2 == IF callFirst
              THEN Append(t1, EvData(first, "call", rec.data)) ELSE t1
        firstThrew == callFirst /\ outOf(first) # NoErr
        callSecond == ~mutThrew /\ ~firstThrew /\ second \in o.has
        t3 == IF callSecond
              THEN Append(t2, EvData(second, "call", rec.data)) ELSE t2
        secondThrew == callSecond /\ outOf(second) # NoErr
        thrown == IF mutThrew THEN mutErr
                  ELSE IF firstThrew THEN outOf(first)
                  ELSE IF secondThrew THEN outOf(second)
                  ELSE NoErr
        r == [rec EXCEPT !.trace = t3, !.ret = "none"]
    IN  [container |-> performCalls(cont, calls, done, strat),
         rec |-> IF thrown = NoErr
                 THEN [r EXCEPT !.pc = "done", !.result = "true"]
                 ELSE handleError(r, o, thrown, errOut)]

\* ------------------------------------------------------------------------
\* Actions of an invocation of processJson
\* ------------------------------------------------------------------------

\* The inputs of the invocations of Spec.
UserDoc ==
    <<<<"user", ObjVal(<<<<"first_name", Prim("Jane")>>,
                         <<"last_name", Prim("Doe")>>,
                         <<"contact", ObjVal(<<<<"email", Prim("j@x.com")>>>>)>>>>)>>>>

UserFieldMap ==
    FieldMap(<<<<"user.first_name", "firstName">>,
               <<"user.last_name", "lastName">>,
               <<"user.contact.email", "email">>>>)

PollutedDoc == <<<<"name", ObjVal(<<<<"__proto__", ObjVal(EmptyObj)>>>>)>>>>

PipelineInputs ==
    {StringInput(InvalidText),
     StringInput(JsonText(<<"arr", <<Prim("x")>>>>)),
     StringInput(JsonText(ObjVal(PollutedDoc))),
     StringInput(JsonText(ObjVal(UserDoc))),
     ObjectInput(<<<<"name", Prim("Bob")>>, <<"age", Prim("30")>>>>),
     ObjectInput(PollutedDoc)}

\* processJson is called: processJsonData runs to its first await.
Start(p) ==
    /\ inv[p].pc = "idle"
    /\ \E jsonInput \in PipelineInputs :
          inv' = [inv EXCEPT ![p] =
                      processJsonDataBegin(
                          [@ EXCEPT !.input = jsonInput, !.values = container],
                          opts)]
    /\ UNCHANGED <<hookVars, container, mergeVars, coreVars, resetVars, ioVars>>

\* The awaited transform settles.
SettleTransform(p) ==
    /\ inv[p].pc = "transform"
    /\ \/ inv' = [inv EXCEPT ![p] =
                      transformReturned(@, opts, applyTransform(@.data))]
       \/ \E e \in ThrownValues :
             inv' = [inv EXCEPT ![p] = callbackThrew(@, "transform", e)]
    /\ UNCHANGED <<hookVars, container, mergeVars, coreVars, resetVars, ioVars>>

\* The awaited validate settles.
SettleValidate(p) ==
    /\ inv[p].pc = "validate"
    /\ \/ \E isValid \in ReturnValues :
             inv' = [inv EXCEPT ![p] = validateReturned(@, opts, isValid)]
       \/ \E e \in ThrownValues :
             inv' = [inv EXCEPT ![p] = callbackThrew(@, "validate", e)]
    /\ UNCHANGED <<hookVars, container, mergeVars, coreVars, resetVars, ioVars>>

\* The awaited onBeforeFill settles.
SettleOnBeforeFill(p) ==
    /\ inv[p].pc = "onBeforeFill"
    /\ \/ \E shouldProceed \in ReturnValues :
             inv' = [inv EXCEPT ![p] = onBeforeFillReturned(@, shouldProceed)]
       \/ \E e \in ThrownValues :
             inv' = [inv EXCEPT ![p] = callbackThrew(@, "onBeforeFill", e)]
    /\ UNCHANGED <<hookVars, container, mergeVars, coreVars, resetVars, ioVars>>

\* processJson resumes with the rejection of processJsonData.
Catch(p) ==
    /\ inv[p].pc = "settled"
    /\ inv[p].error # NoErr
    /\ \E errOut \in VoidOutcomes :
          /\ "onError" \notin opts.has => errOut = NoErr
          /\ inv' = [inv EXCEPT ![p] = handleError(@, opts, @.error, errOut)]
    /\ UNCHANGED <<hookVars, container, mergeVars, coreVars, resetVars, ioVars>>

\* processJson resumes with a cancelled result.
Cancel(p) ==
    /\ inv[p].pc = "settled"
    /\ inv[p].error = NoErr
    /\ inv[p].cancelled
    /\ inv' = [inv EXCEPT ![p].pc = "done", ![p].result = "false",
                          ![p].ret = "none"]
    /\ UNCHANGED <<hookVars, container, mergeVars, coreVars, resetVars, ioVars>>

\* processJson resumes with data to apply. Each outcome is drawn only where
\* the call it belongs to is made.
Apply(p) ==
    /\ inv[p].pc = "settled"
    /\ inv[p].error = NoErr
    /\ ~inv[p].cancelled
    /\ LET strat == IF opts.mergeStrategy = "absent" THEN "merge"
                    ELSE opts.mergeStrategy
           calls == mutatorCalls(binding, strat, container, inv[p].values,
                                 inv[p].data)
       IN  \E failAt \in 0..Len(calls), mutErr, afterOut, successOut, errOut \in VoidOutcomes :
              /\ (failAt = 0) = (mutErr = NoErr)
              /\ (failAt # 0 \/ "onAfterFill" \notin opts.has) => afterOut = NoErr
              /\ (failAt # 0 \/ afterOut # NoErr \/ "onSuccess" \notin opts.has)
                     => successOut = NoErr
              /\ ((mutErr = NoErr /\ afterOut = NoErr /\ successOut = NoErr)
                     \/ "onError" \notin opts.has) => errOut = NoErr
              /\ LET out == applyData(inv[p], opts, binding, container, failAt,
                                      mutErr, afterOut, successOut, errOut)
                 IN  /\ inv' = [inv EXCEPT ![p] = out.rec]
                     /\ container' = out.container
    /\ UNCHANGED <<hookVars, mergeVars, coreVars, resetVars, ioVars>>

\* ------------------------------------------------------------------------
\* Spec: one invocation of processJson, under every binding and option
\* ------------------------------------------------------------------------

\* The flatten and fieldMap options of Spec.
DataOptions ==
    {[flatten |-> "absent", fieldMap |-> UserFieldMap],
     [flatten |-> "false", fieldMap |-> NoMap]}

InitialContainer == <<<<"name", Prim("")>>, <<"email", Prim("")>>>>

Init ==
    /\ binding \in Bindings
    /\ \E d \in DataOptions, s \in {"absent"} \cup MergeStrategies,
          has \in SUBSET Callbacks :
          opts = [mergeStrategy |-> s, flatten |-> d.flatten,
                  fieldMap |-> d.fieldMap, has |-> has]
    /\ container = InitialContainer
    /\ inv = [p \in Procs |-> IF p = "A" THEN IdleInvocation ELSE UnusedInvocation]
    /\ current = EmptyObj
    /\ incoming = EmptyObj
    /\ strategy = "merge"
    /\ merged = Unused
    /\ mergedRef = "none"
    /\ coreArgs = Unused
    /\ coreOut = Unused
    /\ NoReset
    /\ NoIo

Next ==
    \E p \in Procs :
        \/ Start(p)
        \/ SettleTransform(p)
        \/ SettleValidate(p)
        \/ SettleOnBeforeFill(p)
        \/ Catch(p)
        \/ Cancel(p)
        \/ Apply(p)

Spec == Init /\ [][Next]_vars

\* ------------------------------------------------------------------------
\* SpecMerge: mergeData applied to every bounded pair of objects
\* ------------------------------------------------------------------------

InitMerge ==
    /\ binding = "useJsonAutoFill"
    /\ opts = [mergeStrategy |-> "absent", flatten |-> "absent",
               fieldMap |-> NoMap, has |-> {}]
    /\ container = EmptyObj
    /\ inv = [p \in Procs |-> UnusedInvocation]
    /\ \E pair \in MergePairs : current = pair[1] /\ incoming = pair[2]
    /\ strategy \in MergeStrategies \cup {"absent"}
    /\ merged = NotYet
    /\ mergedRef = "none"
    /\ coreArgs = Unused
    /\ coreOut = Unused
    /\ NoReset
    /\ NoIo

MergeData ==
    /\ merged = NotYet
    /\ merged' = mergeData(current, incoming, strategy)
    /\ mergedRef' = mergeDataReturns(strategy)
    /\ UNCHANGED <<pipeVars, current, incoming, strategy, coreVars, resetVars, ioVars>>

NextMerge == MergeData

SpecMerge == InitMerge /\ [][NextMerge]_vars

\* ------------------------------------------------------------------------
\* The core functions applied on their own
\* ------------------------------------------------------------------------

\* A call of a core function: its name and arguments, and what it returned.
CoreCall(fn, arguments) == <<fn>> \o arguments
CoreReturned(value) == <<"returned", value>>

\* The state of the hooks and of mergeData where neither takes part.
HooksUnused ==
    /\ binding = "useJsonAutoFill"
    /\ opts = [mergeStrategy |-> "absent", flatten |-> "absent",
               fieldMap |-> NoMap, has |-> {}]
    /\ container = EmptyObj
    /\ inv = [p \in Procs |-> UnusedInvocation]
    /\ current = EmptyObj
    /\ incoming = EmptyObj
    /\ strategy = "merge"
    /\ merged = Unused
    /\ mergedRef = "none"
    /\ NoReset

CoreOnly == HooksUnused /\ NoIo

\* ------------------------------------------------------------------------
\* SpecParse: parseJson applied to every bounded text
\* ------------------------------------------------------------------------

\* Properties and array elements of the value of a text, below its top.
MaxNodes == 3

JsonKeyOrder == <<"name", "__proto__", "constructor", "prototype">>

\* A string, a number, a boolean and null.
JsonLeaves == {Prim("Bob"), <<"num", "30">>, <<"bool", "true">>, Null}

\* JsonVals(s): the values JSON.parse yields that count s nodes, the one
\* holding the value included. JsonObjs(n, i): the objects of n nodes whose
\* top-level keys are among JsonKeyOrder[i..], in that order. JsonArrs(n):
\* the element lists of n nodes.
RECURSIVE JsonVals(_), JsonObjs(_, _), JsonArrs(_)
JsonVals(s) ==
    IF s = 1 THEN JsonLeaves \cup {ObjVal(EmptyObj), <<"arr", <<>>>>}
    ELSE {ObjVal(o) : o \in JsonObjs(s - 1, 1)}
         \cup {<<"arr", a>> : a \in JsonArrs(s - 1)}

JsonObjs(n, i) ==
    IF n = 0 THEN {EmptyObj}
    ELSE IF i > Len(JsonKeyOrder) THEN {}
    ELSE JsonObjs(n, i + 1) \cup
         UNION {{<<<<JsonKeyOrder[i], v>>>> \o rest :
                    v \in JsonVals(s), rest \in JsonObjs(n - s, i + 1)} : s \in 1..n}

JsonArrs(n) ==
    IF n = 0 THEN {<<>>}
    ELSE UNION {{<<v>> \o rest : v \in JsonVals(s), rest \in JsonArrs(n - s)} :
                   s \in 1..n}

\* The texts: one that JSON.parse rejects, and one for every bounded value.
JsonTexts ==
    {InvalidText} \cup
    {JsonText(v) : v \in UNION {JsonVals(s) : s \in 1..(MaxNodes + 1)}}

InitParse ==
    /\ CoreOnly
    /\ \E text \in JsonTexts : coreArgs = CoreCall("parseJson", <<text>>)
    /\ coreOut = NotYet

ParseJson ==
    /\ coreArgs[1] = "parseJson"
    /\ coreOut = NotYet
    /\ coreOut' = CoreReturned(parseJson(coreArgs[2]))
    /\ UNCHANGED <<pipeVars, mergeVars, coreArgs, resetVars, ioVars>>

NextParse == ParseJson

SpecParse == InitParse /\ [][NextParse]_vars

\* ------------------------------------------------------------------------
\* SpecFlatten: flattenObject applied to every bounded object
\* ------------------------------------------------------------------------

\* Own properties, counted at every depth, of the object flattened.
MaxFlatProps == 3

\* Property names, one of them with a "." in it.
FlatKeyOrder == <<"a", "b", "a.b">>

FlatLeaves ==
    {Prim("x"), Prim("y"), Null, <<"arr", <<ObjVal(<<<<"a", Prim("x")>>>>)>>>>,
     <<"date", "d">>, <<"regexp", "r">>}

\* FlatObjs(n, i): the objects with exactly n own properties counted at
\* every depth, whose top-level keys are among FlatKeyOrder[i..].
RECURSIVE FlatObjs(_, _), FlatVals(_)
FlatObjs(n, i) ==
    IF n = 0 THEN {EmptyObj}
    ELSE IF i > Len(FlatKeyOrder) THEN {}
    ELSE FlatObjs(n, i + 1) \cup
         UNION {{<<<<FlatKeyOrder[i], v>>>> \o rest :
                    v \in FlatVals(s), rest \in FlatObjs(n - s, i + 1)} : s \in 1..n}

FlatVals(s) ==
    IF s = 1 THEN FlatLeaves \cup {ObjVal(EmptyObj)}
    ELSE {ObjVal(o) : o \in FlatObjs(s - 1, 1)}

FlattenInputs == UNION {FlatObjs(n, 1) : n \in 0..MaxFlatProps}

InitFlatten ==
    /\ CoreOnly
    /\ \E obj \in FlattenInputs : coreArgs = CoreCall("flattenObject", <<obj>>)
    /\ coreOut = NotYet

FlattenObject ==
    /\ coreArgs[1] = "flattenObject"
    /\ coreOut = NotYet
    /\ coreOut' = CoreReturned(flattenObject(coreArgs[2]))
    /\ UNCHANGED <<pipeVars, mergeVars, coreArgs, resetVars, ioVars>>

NextFlatten == FlattenObject

SpecFlatten == InitFlatten /\ [][NextFlatten]_vars

\* ------------------------------------------------------------------------
\* SpecMapping: applyMapping applied to every bounded object and field map
\* ------------------------------------------------------------------------

\* The destinations a field map names.
Destinations == {"name", "fullName"}

\* The field maps over the keys KeyOrder[i..]: each key is mapped to a
\* destination or left out.
RECURSIVE FieldMapsFrom(_)
FieldMapsFrom(i) ==
    IF i > Len(KeyOrder) THEN {EmptyObj}
    ELSE LET rest == FieldMapsFrom(i + 1)
         IN  rest \cup {<<<<KeyOrder[i], d>>>> \o m : d \in Destinations, m \in rest}

FieldMaps == {NoMap} \cup {FieldMap(m) : m \in FieldMapsFrom(1)}

MappingInputs == UNION {ObjsOfSize(n) : n \in 0..MaxProps}

InitMapping ==
    /\ CoreOnly
    /\ \E data \in MappingInputs, fieldMap \in FieldMaps :
          coreArgs = CoreCall("applyMapping", <<data, fieldMap>>)
    /\ coreOut = NotYet

ApplyMapping ==
    /\ coreArgs[1] = "applyMapping"
    /\ coreOut = NotYet
    /\ coreOut' = CoreReturned(applyMapping(coreArgs[2], coreArgs[3]))
    /\ UNCHANGED <<pipeVars, mergeVars, coreArgs, resetVars, ioVars>>

NextMapping == ApplyMapping

SpecMapping == InitMapping /\ [][NextMapping]_vars

\* ------------------------------------------------------------------------
\* SpecParity: processJson of the three bindings, side by side, on one
\* container value, input and options
\* ------------------------------------------------------------------------

\* The callbacks of the bindings (those of the pipeline are one code for
\* all three bindings).
BindingCallbacks == {"onAfterFill", "onSuccess", "onError"}

ParityStrategies == {"absent", "merge", "strict", "replace"}

InitParity ==
    /\ CoreOnly
    /\ \E jsonInput \in MappingInputs, s \in ParityStrategies,
          has \in SUBSET BindingCallbacks :
          coreArgs = CoreCall("processJson",
                              <<InitialContainer, ObjectInput(jsonInput),
                                [mergeStrategy |-> s, flatten |-> "false",
                                 fieldMap |-> NoMap, has |-> has]>>)
    /\ coreOut = NotYet

\* processJson runs in each binding, from the same container value, with
\* callbacks that do the same in each; no mutator throws.
ProcessJsonInEachBinding ==
    /\ coreArgs[1] = "processJson"
    /\ coreOut = NotYet
    /\ LET cont == coreArgs[2]
           o == coreArgs[4]
           rec == processJsonDataBegin(
                      [IdleInvocation EXCEPT !.input = coreArgs[3],
                                             !.values = cont], o)
       IN  \E afterOut, successOut, errOut \in VoidOutcomes :
              /\ "onAfterFill" \notin o.has => afterOut = NoErr
              /\ (afterOut # NoErr \/ "onSuccess" \notin o.has) => successOut = NoErr
              /\ ((afterOut = NoErr /\ successOut = NoErr) \/ "onError" \notin o.has)
                     => errOut = NoErr
              /\ coreOut' = CoreReturned(
                     [b \in Bindings |->
                         applyData(rec, o, b, cont, 0, NoErr, afterOut,
                                   successOut, errOut)])
    /\ UNCHANGED <<pipeVars, mergeVars, coreArgs, resetVars, ioVars>>

NextParity == ProcessJsonInEachBinding

SpecParity == InitParity /\ [][NextParity]_vars

\* ------------------------------------------------------------------------
\* SpecReset: useJsonAutoFill with processJson, renders and reset()
\* ------------------------------------------------------------------------

\* The calls of reset() in a run.
MaxResets == 2

\* The initialData argument of a render: none, or a value.
InitialDatas ==
    {NoInitialData, InitialData(InitialContainer),
     InitialData(<<<<"name", Prim("Al")>>>>)}

\* A call of reset(): what it returned, and what it gave to setFormData.
ResetCall(ret, set, value) == [ret |-> ret, set |-> set, value |-> value]

\* The mutant of reset: true is returned and the setter is not called.
resetKeepsContainer(data, cont) ==
    [call |-> ResetCall(TRUE, FALSE, EmptyObj), container |-> cont]

\* reset() with initialDataRef.current = data, the container holding cont.
reset(data, cont) ==
    IF ~data.given
    THEN [call |-> ResetCall(FALSE, FALSE, EmptyObj), container |-> cont]
    ELSE [call |-> ResetCall(TRUE, TRUE, data.value), container |-> data.value]

InitReset ==
    /\ binding = "useJsonAutoFill"
    /\ \E s \in {"absent", "replace"} :
          opts = [mergeStrategy |-> s, flatten |-> "false", fieldMap |-> NoMap,
                  has |-> {}]
    /\ container = InitialContainer
    /\ inv = [p \in Procs |-> IdleInvocation]
    /\ current = EmptyObj
    /\ incoming = EmptyObj
    /\ strategy = "merge"
    /\ merged = Unused
    /\ mergedRef = "none"
    /\ coreArgs = Unused
    /\ coreOut = Unused
    /\ initialDataRef \in InitialDatas
    /\ setupInitialData = initialDataRef
    /\ resets = <<>>
    /\ NoIo

\* The component renders again and the hook is given initialData.
Render(initialData) ==
    /\ initialData # initialDataRef
    /\ initialDataRef' = initialData
    /\ UNCHANGED <<pipeVars, mergeVars, coreVars, setupInitialData, resets, ioVars>>

Reset ==
    /\ Len(resets) < MaxResets
    /\ LET r == reset(initialDataRef, container)
       IN  /\ container' = r.container
           /\ resets' = Append(resets, r.call)
    /\ UNCHANGED <<hookVars, inv, mergeVars, coreVars, initialDataRef,
                   setupInitialData, ioVars>>

NextReset ==
    \/ \E p \in Procs : Start(p) \/ Catch(p) \/ Apply(p)
    \/ \E initialData \in InitialDatas : Render(initialData)
    \/ Reset

SpecReset == InitReset /\ [][NextReset]_vars

\* ------------------------------------------------------------------------
\* SpecAdapters: JsonFileUploader, useJsonDragAndDrop and useJsonPaste
\* ------------------------------------------------------------------------
\* One event reaches one adapter: a change of the file input, a drop, or a
\* paste.  The error sink onError and onJsonLoaded return normally; the
\* callback onJsonPasted, which runs inside the paste handler's try block,
\* returns or throws.

\* The files of one selection or drop.
MaxFiles == 2

\* The characters of a pasted text.
MaxPasteLen == 3

DEFAULT_MAX_FILE_SIZE == 1048576

\* An optional numeric option.
NoNumber == [given |-> FALSE, value |-> 0]
Number(n) == [given |-> TRUE, value |-> n]

Adapters == {"JsonFileUploader", "useJsonDragAndDrop", "useJsonPaste"}

\* A file name is its stem and its extension; endsWith looks at the end.
endsWith(name, suffix) == name[Len(name)] = suffix

File(name, type, size) == [name |-> name, type |-> type, size |-> size]

FileNames == {<<"a", ".json">>, <<"a", ".txt">>}
FileTypes == {"application/json", "text/plain"}
FileSizes == {512000, DEFAULT_MAX_FILE_SIZE, DEFAULT_MAX_FILE_SIZE + 1}

Files == {File(n, t, z) : n \in FileNames, t \in FileTypes, z \in FileSizes}

FileLists == UNION {[1..n -> Files] : n \in 0..MaxFiles}

\* The destructured options: maxFileSize = DEFAULT_MAX_FILE_SIZE.
maxFileSizeOf(o) ==
    IF o.maxFileSize.given THEN o.maxFileSize.value ELSE DEFAULT_MAX_FILE_SIZE

\* What an adapter did: a callback it called on a file (0: on no one file),
\* or a read it started.
IoEvent(fn, file, code, data) ==
    [fn |-> fn, file |-> file, code |-> code, data |-> data]

\* onError?.(new JsonAutoFillError(..., code))
onErrorCall(o, file, code) ==
    IF o.hasOnError THEN <<IoEvent("onError", file, code, <<>>)>> ELSE <<>>

\* The mutant of tooLarge: a file of exactly the maximum is too large.
tooLargeAtLimit(file, maxFileSize) == file.size >= maxFileSize

\* file.size > maxFileSize
tooLarge(file, maxFileSize) == file.size > maxFileSize

\* f.name.endsWith(".json") || f.type === "application/json"
isJsonFile(file) ==
    endsWith(file.name, ".json") \/ file.type = "application/json"

\* What a handler leaves: the events it logged and the reads it started.
IoDone(log, reads) == [log |-> log, reads |-> reads]

\* The size check and the start of the read, as both adapters do them.
readUnlessTooLarge(o, files, i) ==
    IF tooLarge(files[i], maxFileSizeOf(o))
    THEN IoDone(onErrorCall(o, i, "FILE_TOO_LARGE"), {})
    ELSE IoDone(<<IoEvent("readAsText", i, "", <<>>)>>, {i})

\* JsonFileUploader's processFile on the i-th file.
processFile(o, files, i) ==
    IF ~endsWith(files[i].name, ".json") /\ files[i].type # "application/json"
    THEN IoDone(onErrorCall(o, i, "INVALID_FILE_TYPE"), {})
    ELSE readUnlessTooLarge(o, files, i)

RECURSIVE forEachFile(_, _, _, _)
\* for (const file of ...): step(o, files, i) on each index of indices.
forEachFile(o, files, indices, uploader) ==
    IF indices = <<>>
    THEN IoDone(<<>>, {})
    ELSE LET first == IF uploader
                      THEN processFile(o, files, Head(indices))
                      ELSE readUnlessTooLarge(o, files, Head(indices))
             rest == forEachFile(o, files, Tail(indices), uploader)
         IN  IoDone(first.log \o rest.log, first.reads \cup rest.reads)

\* JsonFileUploader's handleChange.
handleChange(o, files) ==
    forEachFile(o, files, [i \in 1..Len(files) |-> i], TRUE)

RECURSIVE jsonFilesFrom(_, _)
\* files.filter(isJsonFile), as indices into files, from index i on.
jsonFilesFrom(files, i) ==
    IF i > Len(files) THEN <<>>
    ELSE IF isJsonFile(files[i]) THEN <<i>> \o jsonFilesFrom(files, i + 1)
    ELSE jsonFilesFrom(files, i + 1)

\* useJsonDragAndDrop's handleDrop.
handleDrop(o, files) ==
    IF o.disabled THEN IoDone(<<>>, {})
    ELSE LET jsonFiles == jsonFilesFrom(files, 1)
         IN  IF jsonFiles = <<>>
             THEN IoDone(onErrorCall(o, 0, "INVALID_FILE_TYPE"), {})
             ELSE forEachFile(o, files, jsonFiles, FALSE)

\* A pasted text is a sequence of characters.
PasteChars == {" ", "{", "}", "[", "]", "x"}
PasteTexts == UNION {[1..n -> PasteChars] : n \in 0..MaxPasteLen}

RECURSIVE trimStart(_)
trimStart(text) ==
    IF text # <<>> /\ Head(text) = " " THEN trimStart(Tail(text)) ELSE text

RECURSIVE trimEnd(_)
trimEnd(text) ==
    IF text # <<>> /\ text[Len(text)] = " "
    THEN trimEnd(SubSeq(text, 1, Len(text) - 1))
    ELSE text

\* String.prototype.trim
trim(text) == trimEnd(trimStart(text))

startsWith(text, char) == text # <<>> /\ text[1] = char

\* The text without its white space, none of which is inside a string.
withoutSpace(text) == SelectSeq(text, LAMBDA c : c # " ")

RECURSIVE isJsonValue(_)
\* The JSON values over PasteChars: {}, [] and [value].
isJsonValue(text) ==
    \/ text = <<"{", "}">>
    \/ text = <<"[", "]">>
    \/ /\ Len(text) > 2
       /\ text[1] = "["
       /\ text[Len(text)] = "]"
       /\ isJsonValue(SubSeq(text, 2, Len(text) - 1))

\* JSON.parse(text) does not throw.
jsonParses(text) == isJsonValue(withoutSpace(text))

\* useJsonPaste's handlePaste; pastedOut is how onJsonPasted ends, if called.
handlePaste(o, clipboard, pastedOut) ==
    LET text == trim(clipboard)
    IN  IF ~o.enabled THEN <<>>
        ELSE IF text = <<>> THEN <<>>
        ELSE IF ~startsWith(text, "{") /\ ~startsWith(text, "[") THEN <<>>
        ELSE IF ~jsonParses(text) THEN onErrorCall(o, 0, "PARSE_ERROR")
        ELSE <<IoEvent("onJsonPasted", 0, pastedOut, text)>> \o
             (IF pastedOut = "threw"
              THEN onErrorCall(o, 0, "PARSE_ERROR")
              ELSE <<>>)

AdapterOptions(adapter) ==
    {[adapter |-> adapter, maxFileSize |-> m, hasOnError |-> e,
      disabled |-> d, enabled |-> n] :
        m \in IF adapter = "useJsonPaste" THEN {NoNumber}
              ELSE {NoNumber, Number(512000)},
        e \in BOOLEAN,
        d \in IF adapter = "useJsonDragAndDrop" THEN BOOLEAN ELSE {FALSE},
        n \in IF adapter = "useJsonPaste" THEN BOOLEAN ELSE {TRUE}}

InitAdapters ==
    /\ HooksUnused
    /\ \E adapter \in Adapters : ioOptions \in AdapterOptions(adapter)
    /\ coreArgs = Unused
    /\ coreOut = Unused
    /\ ioReading = {}
    /\ ioLog = <<>>

\* The file input changes: files are the selected files.
HandleChange(files) ==
    /\ ioOptions.adapter = "JsonFileUploader"
    /\ coreArgs = Unused
    /\ coreArgs' = CoreCall("handleChange", <<files>>)
    /\ LET done == handleChange(ioOptions, files)
       IN  /\ ioLog' = done.log
           /\ ioReading' = done.reads
    /\ coreOut' = CoreReturned(Undefined)
    /\ UNCHANGED <<pipeVars, mergeVars, resetVars, ioOptions>>

\* Files are dropped on the drop zone.
HandleDrop(files) ==
    /\ ioOptions.adapter = "useJsonDragAndDrop"
    /\ coreArgs = Unused
    /\ coreArgs' = CoreCall("handleDrop", <<files>>)
    /\ LET done == handleDrop(ioOptions, files)
       IN  /\ ioLog' = done.log
           /\ ioReading' = done.reads
    /\ coreOut' = CoreReturned(Undefined)
    /\ UNCHANGED <<pipeVars, mergeVars, resetVars, ioOptions>>

\* A paste event with clipboard as its text/plain data.
HandlePaste(clipboard) ==
    /\ ioOptions.adapter = "useJsonPaste"
    /\ coreArgs = Unused
    /\ coreArgs' = CoreCall("handlePaste", <<clipboard>>)
    /\ \E pastedOut \in {"returned", "threw"} :
          ioLog' = handlePaste(ioOptions, clipboard, pastedOut)
    /\ coreOut' = CoreReturned(Undefined)
    /\ UNCHANGED <<pipeVars, mergeVars, resetVars, ioOptions, ioReading>>

\* reader.onload of the read of the i-th file.
ReadLoads(i) ==
    /\ i \in ioReading
    /\ ioReading' = ioReading \ {i}
    /\ ioLog' = Append(ioLog, IoEvent("onJsonLoaded", i, "", <<>>))
    /\ UNCHANGED <<pipeVars, mergeVars, coreVars, resetVars, ioOptions>>

\* reader.onerror of the read of the i-th file.
ReadFails(i) ==
    /\ i \in ioReading
    /\ ioReading' = ioReading \ {i}
    /\ ioLog' = ioLog \o onErrorCall(ioOptions, i, "FILE_READ_ERROR")
    /\ UNCHANGED <<pipeVars, mergeVars, coreVars, resetVars, ioOptions>>

NextAdapters ==
    \/ \E files \in FileLists : HandleChange(files) \/ HandleDrop(files)
    \/ \E clipboard \in PasteTexts : HandlePaste(clipboard)
    \/ \E i \in 1..(MaxFiles + 1) : ReadLoads(i) \/ ReadFails(i)

SpecAdapters == InitAdapters /\ [][NextAdapters]_vars

\* ------------------------------------------------------------------------
\* SpecPipeline: processJsonData without callbacks, on nested objects
\* ------------------------------------------------------------------------

\* The second argument of processJsonData: absent, or an object whose
\* flatten is absent, undefined, true or false.
NoOptions == [given |-> FALSE, flatten |-> "absent", fieldMap |-> NoMap]
Options(flatten, fieldMap) ==
    [given |-> TRUE, flatten |-> flatten, fieldMap |-> fieldMap]

\* options?.flatten, options?.fieldMap and the callbacks, none here.
optionsOf(options) ==
    [mergeStrategy |-> "absent",
     flatten |-> IF options.given THEN options.flatten ELSE "undefined",
     fieldMap |-> IF options.given THEN options.fieldMap ELSE NoMap,
     has |-> {}]

PipelineFieldMaps ==
    {NoMap, FieldMap(<<<<"a", "x">>>>), FieldMap(<<<<"a.b", "x">>>>),
     FieldMap(<<<<"b", "y">>, <<"a.a", "x">>>>)}

PipelineOptions ==
    {NoOptions} \cup
    {Options(f, m) : f \in {"absent", "undefined", "true", "false"},
                     m \in PipelineFieldMaps}

PipelineDocs == UNION {FlatObjs(n, 1) : n \in 1..(MaxFlatProps - 1)}

InitPipeline ==
    /\ CoreOnly
    /\ \E obj \in PipelineDocs, options \in PipelineOptions :
          \E jsonInput \in {ObjectInput(obj), StringInput(JsonText(ObjVal(obj)))} :
              coreArgs = CoreCall("processJsonData", <<jsonInput, options>>)
    /\ coreOut = NotYet

ProcessJsonData ==
    /\ coreArgs[1] = "processJsonData"
    /\ coreOut = NotYet
    /\ coreOut' = CoreReturned(
           processJsonDataBegin([IdleInvocation EXCEPT !.input = coreArgs[2]],
                                optionsOf(coreArgs[3])))
    /\ UNCHANGED <<pipeVars, mergeVars, coreArgs, resetVars, ioVars>>

NextPipeline == ProcessJsonData

SpecPipeline == InitPipeline /\ [][NextPipeline]_vars

\* ------------------------------------------------------------------------
\* SpecRHF: processJson of the React Hook Form binding under each strategy
\* ------------------------------------------------------------------------

\* A form whose field "name" holds a plain object.
NestedContainer ==
    <<<<"name", ObjVal(<<<<"email", Prim("")>>>>)>>, <<"email", Prim("")>>>>

RHFInputs == UNION {ObjsOfSize(n) : n \in 0..(MaxProps - 1)}

InitRHF ==
    /\ CoreOnly
    /\ \E values \in {InitialContainer, NestedContainer},
          jsonInput \in RHFInputs,
          s \in {"absent"} \cup MergeStrategies :
          coreArgs = CoreCall("useJsonAutoFillRHF.processJson",
                              <<values, ObjectInput(jsonInput),
                                [mergeStrategy |-> s, flatten |-> "false",
                                 fieldMap |-> NoMap, has |-> {}]>>)
    /\ coreOut = NotYet

\* processJson of the binding, no callback supplied, no mutator throwing.
ProcessJsonRHF ==
    /\ coreArgs[1] = "useJsonAutoFillRHF.processJson"
    /\ coreOut = NotYet
    /\ LET rec == processJsonDataBegin(
                      [IdleInvocation EXCEPT !.input = coreArgs[3],
                                             !.values = coreArgs[2]],
                      coreArgs[4])
       IN  coreOut' = CoreReturned(
               applyData(rec, coreArgs[4], "useJsonAutoFillRHF", coreArgs[2],
                         0, NoErr, NoErr, NoErr, NoErr))
    /\ UNCHANGED <<pipeVars, mergeVars, coreArgs, resetVars, ioVars>>

NextRHF == ProcessJsonRHF

SpecRHF == InitRHF /\ [][NextRHF]_vars

\* ------------------------------------------------------------------------
\* SpecOverlap: two invocations of processJson at a time
\* ------------------------------------------------------------------------
\* No callback is supplied: processJsonData is awaited all the same, so the
\* second invocation may start, and end, between the start of the first and
\* its mutation.

InitOverlap ==
    /\ binding \in Bindings
    /\ \E s \in {"absent"} \cup MergeStrategies :
          opts = [mergeStrategy |-> s, flatten |-> "false", fieldMap |-> NoMap,
                  has |-> {}]
    /\ container = InitialContainer
    /\ inv = [p \in Procs |-> IdleInvocation]
    /\ current = EmptyObj
    /\ incoming = EmptyObj
    /\ strategy = "merge"
    /\ merged = Unused
    /\ mergedRef = "none"
    /\ coreArgs = Unused
    /\ coreOut = Unused
    /\ NoReset
    /\ NoIo

NextOverlap == \E p \in Procs : Start(p) \/ Catch(p) \/ Apply(p)

SpecOverlap == InitOverlap /\ [][NextOverlap]_vars

\* ------------------------------------------------------------------------
\* SpecFlatMerge: the output of processJsonData, flatten enabled and no
\* transform, merged into a state under "deep" and under "merge"
\* ------------------------------------------------------------------------

\* States whose fields hold plain objects under the keys an output may have.
FlatMergeStates ==
    {EmptyObj,
     <<<<"a", ObjVal(<<<<"b", Prim("x")>>>>)>>>>,
     <<<<"a", Prim("x")>>, <<"a.b", ObjVal(<<<<"a", Prim("y")>>>>)>>>>,
     <<<<"x", ObjVal(<<<<"a", Prim("x")>>>>)>>, <<"b", ObjVal(EmptyObj)>>>>}

FlatMergeOptions ==
    {NoOptions} \cup
    {Options(f, m) : f \in {"absent", "undefined", "true"},
                     m \in PipelineFieldMaps}

InitFlatMerge ==
    /\ CoreOnly
    /\ \E state \in FlatMergeStates, obj \in PipelineDocs,
          options \in FlatMergeOptions :
          \E jsonInput \in {ObjectInput(obj), StringInput(JsonText(ObjVal(obj)))} :
              coreArgs = CoreCall("mergeData(processJsonData)",
                                  <<state, jsonInput, options>>)
    /\ coreOut = NotYet

\* processJsonData runs without callbacks and its data is merged into the
\* state under each of the two strategies.
MergePipelineOutput ==
    /\ coreArgs[1] = "mergeData(processJsonData)"
    /\ coreOut = NotYet
    /\ LET rec == processJsonDataBegin(
                      [IdleInvocation EXCEPT !.input = coreArgs[3]],
                      optionsOf(coreArgs[4]))
       IN  coreOut' = CoreReturned(
               [data |-> rec.data,
                deep |-> mergeData(coreArgs[2], rec.data, "deep"),
                merge |-> mergeData(coreArgs[2], rec.data, "merge")])
    /\ UNCHANGED <<pipeVars, mergeVars, coreArgs, resetVars, ioVars>>

NextFlatMerge == MergePipelineOutput

SpecFlatMerge == InitFlatMerge /\ [][NextFlatMerge]_vars

\* ========================================================================
\* Properties
\* ========================================================================

StageNames == {"parse", "flatten", "map", "transform", "validate", "onBeforeFill"}
LifecycleNames == {"onAfterFill", "onSuccess", "onError"}

IsStageEvent(e) == e.fn \in StageNames
IsLateEvent(e) == e.fn \notin StageNames
IsMutatorEvent(e) == e.fn \in Mutators

\* The events of the pipeline's stages, and the events of the binding.
StageEvents(p) == SelectSeq(inv[p].trace, IsStageEvent)
LateEvents(p) == SelectSeq(inv[p].trace, IsLateEvent)
MutatorEvents(p) == SelectSeq(inv[p].trace, IsMutatorEvent)

\* How often `fn` was invoked.
Count(p, fn) == Cardinality({i \in DOMAIN inv[p].trace : inv[p].trace[i].fn = fn})

\* The stages started, in order.
StartedStages(p) ==
    LET st == StageEvents(p)
        starts == SelectSeq(st, LAMBDA e : e.ph = "start")
    IN  [i \in 1..Len(starts) |-> starts[i].fn]

IsPrefix(s, t) == Len(s) <= Len(t) /\ \A i \in 1..Len(s) : s[i] = t[i]

Optional(cond, x) == IF cond THEN <<x>> ELSE <<>>

\* The stages of a complete run, in the fixed order.
ExpectedStages(p) ==
    Optional(inv[p].input[1] = "string", "parse")
    \o Optional(opts.flatten # "false", "flatten")
    \o <<"map">>
    \o Optional("transform" \in opts.has, "transform")
    \o Optional("validate" \in opts.has, "validate")
    \o Optional("onBeforeFill" \in opts.has, "onBeforeFill")

Awaiting == {"transform", "validate", "onBeforeFill"}
Over == {"settled", "done"}
Started(p) == inv[p].pc \notin {"unused", "idle"}

LastStageEvent(p) == StageEvents(p)[Len(StageEvents(p))]

\* The strategy in force.
Strategy == IF opts.mergeStrategy = "absent" THEN "merge" ELSE opts.mergeStrategy

\* ------------------------------------------------------------------------
\* C1
\* ------------------------------------------------------------------------

C1_State(p) ==
    LET st == StageEvents(p)
    IN  /\ \A i \in DOMAIN st :
               IF i % 2 = 1 THEN st[i].ph = "start"
               ELSE st[i].ph \in {"end", "fail"} /\ st[i].fn = st[i - 1].fn
        /\ IsPrefix(StartedStages(p), ExpectedStages(p))
        /\ \A i \in DOMAIN st : st[i].ph = "fail" => i = Len(st)
        /\ inv[p].pc \in Awaiting =>
               /\ Len(st) % 2 = 1
               /\ st[Len(st)].fn = inv[p].pc
        /\ inv[p].pc \in Over => Len(st) % 2 = 0
        /\ inv[p].error # NoErr => inv[p].pc \in Over
        /\ (inv[p].pc \in Over /\ inv[p].error = NoErr) =>
               StartedStages(p) = ExpectedStages(p)

\* C1: in every invocation the stages run in the fixed order parse (string
\* input only), flatten, map, transform, validate, onBeforeFill; a stage
\* starts only after the one before it has ended, the stage awaited is the
\* one open stage, a run without failure runs every stage the options ask
\* for, and once a stage has failed or the pipeline has returned no stage is
\* started any more.
C1_StageOrder ==
    /\ [](\A p \in Procs : Started(p) => C1_State(p))
    /\ [][\A p \in Procs :
              inv[p].pc \in Over => StageEvents(p)' = StageEvents(p)]_vars

\* A run of all six stages has completed.
C1_Witness ==
    \E p \in Procs :
        /\ inv[p].pc = "done"
        /\ StartedStages(p) =
               <<"parse", "flatten", "map", "transform", "validate", "onBeforeFill">>

\* ------------------------------------------------------------------------
\* C2
\* ------------------------------------------------------------------------

\* C2: whenever parse, transform, validate or onBeforeFill fails, no mutator
\* of the container is invoked in that invocation, the container's value is
\* unchanged, and processJson resolves to false.
C2_FailureAppliesNothing ==
    \A p \in Procs :
        (inv[p].pc = "done" /\ inv[p].error # NoErr) =>
            /\ MutatorEvents(p) = <<>>
            /\ container = inv[p].values
            /\ inv[p].result = "false"

\* ------------------------------------------------------------------------
\* C3
\* ------------------------------------------------------------------------

\* C3: the gate cancels if and only if onBeforeFill returned exactly false;
\* processJsonData then returns the working value with cancelled = true and
\* raises nothing; a cancelled invocation leaves the container unchanged,
\* invokes none of the mutators, onAfterFill, onSuccess and onError, and
\* resolves to false.
C3_GateCancelsOnFalseOnly ==
    \A p \in Procs :
        /\ (/\ inv[p].pc = "settled"
            /\ StageEvents(p) # <<>>
            /\ LastStageEvent(p) = Ev("onBeforeFill", "end")) =>
               /\ inv[p].cancelled = (inv[p].ret = "false")
               /\ inv[p].error = NoErr
               /\ StageEvents(p)[Len(StageEvents(p)) - 1] =
                      EvData("onBeforeFill", "start", inv[p].data)
        /\ inv[p].cancelled =>
               /\ inv[p].pc \in Over
               /\ inv[p].error = NoErr
               /\ LateEvents(p) = <<>>
               /\ container = inv[p].values
               /\ inv[p].result = IF inv[p].pc = "done" THEN "false" ELSE "none"

\* A cancelled invocation has completed under options that supply every
\* lifecycle callback.
C3_Witness ==
    \E p \in Procs :
        /\ inv[p].pc = "done"
        /\ inv[p].cancelled
        /\ LifecycleNames \subseteq opts.has

\* ------------------------------------------------------------------------
\* C4
\* ------------------------------------------------------------------------

ValidationError == JsonAutoFillError("Validation failed", "VALIDATION_ERROR")

\* validate was the last stage to run, and the pipeline failed.
FailedAtValidate(p) ==
    /\ inv[p].pc \in Over
    /\ inv[p].error # NoErr
    /\ StageEvents(p) # <<>>
    /\ LastStageEvent(p).fn = "validate"

\* C4: a falsy result of validate fails the pipeline with a
\* JsonAutoFillError of code VALIDATION_ERROR, a truthy one does not; when
\* validate returned falsy or raised, onBeforeFill is never invoked, the
\* failure is the rejection of processJsonData, the binding invokes onError
\* (when supplied) exactly once, with the validation error in the first
\* case, and the invocation invokes no mutator, onAfterFill or onSuccess and
\* does not resolve to true.
C4_ValidateFailure ==
    \A p \in Procs :
        /\ (/\ inv[p].pc \in Awaiting \cup {"settled"}
            /\ StageEvents(p) # <<>>
            /\ LastStageEvent(p) = Ev("validate", "end")) =>
               IF inv[p].ret \in {"false", "undefined", "null", "0", "''"}
               THEN inv[p].pc = "settled" /\ inv[p].error = ValidationError
               ELSE inv[p].error = NoErr
        /\ FailedAtValidate(p) =>
               /\ Count(p, "onBeforeFill") = 0
               /\ LastStageEvent(p).ph = "end" => inv[p].error = ValidationError
               /\ LastStageEvent(p).ph = "fail" => inv[p].error \in ThrownValues
               /\ inv[p].pc = "done" =>
                      /\ inv[p].result # "true"
                      /\ MutatorEvents(p) = <<>>
                      /\ Count(p, "onAfterFill") = 0
                      /\ Count(p, "onSuccess") = 0
                      /\ "onError" \in opts.has =>
                             /\ Count(p, "onError") = 1
                             /\ LastStageEvent(p).ph = "end" =>
                                    LateEvents(p) =
                                        <<EvErr("onError", "call", ValidationError)>>

\* validate returned a falsy value, under options that supply onBeforeFill
\* and onError, and the invocation has completed.
C4_Witness ==
    \E p \in Procs :
        /\ inv[p].pc = "done"
        /\ FailedAtValidate(p)
        /\ LastStageEvent(p).ph = "end"
        /\ {"onBeforeFill", "onError"} \subseteq opts.has

\* ------------------------------------------------------------------------
\* C5
\* ------------------------------------------------------------------------

\* The lifecycle calls of a fill that succeeded: onAfterFill, then
\* onSuccess, each once if supplied, each with the pipeline's data.
SuccessCalls(p) ==
    Optional("onAfterFill" \in opts.has,
             EvData("onAfterFill", "call", inv[p].data))
    \o Optional("onSuccess" \in opts.has,
                EvData("onSuccess", "call", inv[p].data))

\* Every event is a call that sets one field of `data` to its value, and no
\* field is set twice.
OneCallPerField(muts, fn, data) ==
    /\ \A i \in DOMAIN muts :
           /\ muts[i].fn = fn
           /\ Len(muts[i].data) = 1
           /\ HasOwn(data, muts[i].data[1][1])
           /\ GetOwn(data, muts[i].data[1][1]) = muts[i].data[1][2]
    /\ \A i, j \in DOMAIN muts : muts[i].data[1][1] = muts[j].data[1][1] => i = j

\* The mutator calls are the binding's: one whole-value call, or one call
\* per field.
MutationShape(p) ==
    LET muts == MutatorEvents(p)
        one(fn) == Len(muts) = 1 /\ muts[1].fn = fn
    IN  CASE binding = "useJsonAutoFill" ->
                one("setFormData") /\ muts[1].data = inv[p].data
          [] binding = "useJsonAutoFillRHF" ->
                IF Strategy = "replace"
                THEN one("reset") /\ muts[1].data = inv[p].data
                ELSE OneCallPerField(muts, "setValue", inv[p].data)
          [] OTHER ->
                IF Strategy = "replace"
                THEN one("setValues") /\ muts[1].data = inv[p].data
                ELSE IF Strategy = "strict"
                THEN OneCallPerField(muts, "setFieldValue", inv[p].data)
                ELSE one("setValues")

SuccessOrder(p) ==
    /\ inv[p].trace = StageEvents(p) \o MutatorEvents(p) \o SuccessCalls(p)
    /\ MutationShape(p)
    /\ inv[p].error = NoErr
    /\ ~inv[p].cancelled

C6_NeverRejects ==
    \A p \in Procs :
        /\ inv[p].result # "rejected"
        /\ inv[p].pc = "done" => inv[p].result \in {"true", "false"}

\* ------------------------------------------------------------------------
\* C7
\* ------------------------------------------------------------------------

IsTypedError(e) ==
    e.kind = "JsonAutoFillError" /\ e.code \in JsonAutoFillErrorCode

\* C7: when parse, transform, validate or onBeforeFill failed, onError is
\* given the failure itself if it is a JsonAutoFillError, else a
\* JsonAutoFillError of code PARSE_ERROR whose message is the failure's, or
\* "Unknown error" if the failure is not an Error; every error given to
\* onError has one of the five codes.
C7_ErrorNormalised ==
    \A p \in Procs :
        /\ (inv[p].pc = "done" /\ inv[p].error # NoErr /\ "onError" \in opts.has) =>
               LET e == inv[p].error
                   given == IF e.kind = "JsonAutoFillError" THEN e
                            ELSE [kind |-> "JsonAutoFillError",
                                  code |-> "PARSE_ERROR",
                                  message |-> IF e.kind = "Error" THEN e.message
                                              ELSE "Unknown error"]
               IN  LateEvents(p) = <<EvErr("onError", "call", given)>>
        /\ \A i \in DOMAIN inv[p].trace :
               inv[p].trace[i].fn = "onError" => IsTypedError(inv[p].trace[i].err)

\* onError was given the wrapping of a failure of a callback of the
\* pipeline, and elsewhere a JsonAutoFillError a callback threw.
C7_Witness ==
    \E p \in Procs :
        /\ inv[p].pc = "done"
        /\ inv[p].error.kind = "Error"
        /\ Count(p, "onError") = 1
        /\ LastStageEvent(p).ph = "fail"
        /\ LastStageEvent(p).fn \in Awaiting

\* ------------------------------------------------------------------------
\* C8
\* ------------------------------------------------------------------------

\* C8: every failure processJsonData rejects with is a JsonAutoFillError
\* with one of the five codes.
C8_PipelineFailsTyped ==
    \A p \in Procs :
        (inv[p].pc = "settled" /\ inv[p].error # NoErr) => IsTypedError(inv[p].error)

\* ------------------------------------------------------------------------
\* C9
\* ------------------------------------------------------------------------

\* C9: mergeData(current, incoming, "strict") has exactly the keys of
\* current; a key of current that incoming has too takes incoming's value, a
\* key only current has keeps its value.
C9_StrictExact ==
    (merged # NotYet /\ merged # Unused /\ strategy = "strict") =>
        /\ Keys(merged) = Keys(current)
        /\ \A k \in Keys(current) :
               GetOwn(merged, k) = IF k \in Keys(incoming) THEN GetOwn(incoming, k)
                                   ELSE GetOwn(current, k)

\* ------------------------------------------------------------------------
\* C10
\* ------------------------------------------------------------------------

\* C10: mergeData(current, incoming, "replace") is incoming: it has
\* incoming's properties and values, and no key that only current has.
C10_ReplaceIsIncoming ==
    (merged # NotYet /\ merged # Unused /\ strategy = "replace") =>
        /\ merged = incoming
        /\ \A k \in Keys(current) \ Keys(incoming) : k \notin Keys(merged)

\* A replace that discards a key of current and brings one of its own.
C10_Witness ==
    /\ merged # NotYet
    /\ merged # Unused
    /\ strategy = "replace"
    /\ Keys(current) \ Keys(incoming) # {}
    /\ Keys(incoming) \ Keys(current) # {}

\* ------------------------------------------------------------------------
\* C11
\* ------------------------------------------------------------------------

Merged == merged # NotYet /\ merged # Unused

\* An object's keys are distinct.
DistinctKeys(o) == Cardinality(Keys(o)) = Len(o)

\* C11: mergeData(current, incoming, "merge"), and mergeData(current,
\* incoming) with no strategy, is the shallow union: its keys are those of
\* current and of incoming, a key of incoming has incoming's value (nested
\* values are not combined), a key only current has keeps current's value.
C11_MergeIsShallowUnion ==
    (Merged /\ strategy \in {"merge", "absent"}) =>
        /\ DistinctKeys(merged)
        /\ Keys(merged) = Keys(current) \cup Keys(incoming)
        /\ \A k \in Keys(incoming) : GetOwn(merged, k) = GetOwn(incoming, k)
        /\ \A k \in Keys(current) \ Keys(incoming) :
               GetOwn(merged, k) = GetOwn(current, k)

\* A merge, with no strategy given, of two objects that hold different
\* nested objects under one key.
C11_Witness ==
    /\ Merged
    /\ strategy = "absent"
    /\ \E k \in Keys(current) \cap Keys(incoming) :
           /\ GetOwn(current, k)[1] = "obj"
           /\ GetOwn(incoming, k)[1] = "obj"
           /\ GetOwn(current, k) # GetOwn(incoming, k)

\* ------------------------------------------------------------------------
\* C12
\* ------------------------------------------------------------------------

\* A plain object: an object that is not null, an array, a Date or a RegExp.
IsPlain(value) == value[1] = "obj"

\* `result` is the deep merge of `cur` and `inc`, key by key.
RECURSIVE IsDeepMergeOf(_, _, _)
IsDeepMergeOf(result, cur, inc) ==
    /\ DistinctKeys(result)
    /\ Keys(result) = Keys(cur) \cup Keys(inc)
    /\ \A k \in Keys(cur) \ Keys(inc) : GetOwn(result, k) = GetOwn(cur, k)
    /\ \A k \in Keys(inc) :
           IF /\ k \in Keys(cur)
              /\ IsPlain(GetOwn(cur, k))
              /\ IsPlain(GetOwn(inc, k))
           THEN /\ IsPlain(GetOwn(result, k))
                /\ IsDeepMergeOf(GetOwn(result, k)[2], GetOwn(cur, k)[2],
                                 GetOwn(inc, k)[2])
           ELSE GetOwn(result, k) = GetOwn(inc, k)

C13_ReturnsNewStructure ==
    Merged => (mergedRef = "new" /\ strategy \in MergeStrategies \cup {"absent"})

\* ------------------------------------------------------------------------
\* C14
\* ------------------------------------------------------------------------

\* The core function `fn` has been applied.
Applied(fn) == coreArgs[1] = fn /\ coreOut[1] = "returned"

IsParseError(e) == e.kind = "JsonAutoFillError" /\ e.code = "PARSE_ERROR"

\* The text's top-level value is a non-null, non-array object.
IsObjectText(text) == text[1] = "json" /\ text[2][1] = "obj"

\* C14: parseJson fails with a JsonAutoFillError of code PARSE_ERROR for
\* every text that is not valid JSON and every text whose top-level value is
\* an array, a string, a number, a boolean or null; it returns a value, the
\* parsed object, only when the top level is a non-null, non-array object.
C14_ParseRejectsNonObjects ==
    Applied("parseJson") =>
        LET text == coreArgs[2]
            r == coreOut[2]
        IN  /\ ~IsObjectText(text) => ~r.ok
            /\ ~r.ok => IsParseError(r.error)
            /\ r.ok => (IsObjectText(text) /\ r.value = text[2][2])

\* parseJson has failed on the text of an array that holds something.
C14_Witness ==
    /\ Applied("parseJson")
    /\ coreArgs[2][1] = "json"
    /\ coreArgs[2][2][1] = "arr"
    /\ coreArgs[2][2][2] # <<>>
    /\ IsParseError(coreOut[2].error)

\* ------------------------------------------------------------------------
\* C15
\* ------------------------------------------------------------------------

ReservedKeys == {"__proto__", "constructor", "prototype"}

\* A reserved key occurs in the object graph of `value`: in the value, in a
\* value of one of its properties, or in an element if it is an array.
RECURSIVE HasReservedKey(_)
HasReservedKey(value) ==
    CASE value[1] = "obj" ->
            \E i \in DOMAIN value[2] :
                \/ value[2][i][1] \in ReservedKeys
                \/ HasReservedKey(value[2][i][2])
      [] value[1] = "arr" ->
            \E i \in DOMAIN value[2] : HasReservedKey(value[2][i])
      [] OTHER -> FALSE

\* C15: for the text of an object, parseJson fails, with PARSE_ERROR, if and
\* only if a key "__proto__", "constructor" or "prototype" occurs anywhere
\* in the object graph, at any depth and inside arrays; a value parseJson
\* returns holds no such key at any depth.
C15_ReservedKeysRejected ==
    (Applied("parseJson") /\ IsObjectText(coreArgs[2])) =>
        LET r == coreOut[2]
        IN  /\ ~r.ok <=> HasReservedKey(coreArgs[2][2])
            /\ ~r.ok => IsParseError(r.error)
            /\ r.ok => ~HasReservedKey(ObjVal(r.value))

\* parseJson has failed on an object whose only reserved key is in an
\* object inside an array.
C15_Witness ==
    /\ Applied("parseJson")
    /\ IsObjectText(coreArgs[2])
    /\ ~coreOut[2].ok
    /\ \A i \in DOMAIN coreArgs[2][2][2] :
           /\ coreArgs[2][2][2][i][1] \notin ReservedKeys
           /\ coreArgs[2][2][2][i][2][1] = "arr"

\* ------------------------------------------------------------------------
\* C16
\* ------------------------------------------------------------------------

\* prefix + "." + key
DotJoin(prefix, key) == IF prefix = "" THEN key ELSE prefix \o "." \o key

\* A leaf: a primitive, null, an array or a Date.
IsLeaf(value) == value[1] \in {"prim", "null", "arr", "date"}

\* The leaves of an object, each with the dot-joined path of its keys.
RECURSIVE LeafPaths(_, _)
LeafPaths(o, prefix) ==
    UNION {LET key == DotJoin(prefix, o[i][1])
               value == o[i][2]
           IN  IF IsLeaf(value) THEN {<<key, value>>}
               ELSE IF IsPlain(value) THEN LeafPaths(value[2], key)
               ELSE {} : i \in DOMAIN o}

\* C16: flattenObject returns a single-level mapping whose values are all
\* leaves (a primitive, null, an array or a Date, never a plain nested
\* object); each leaf of the input is there under the dot-joined path of
\* its keys, arrays and Dates as they are.
C16_FlattenKeepsLeaves ==
    Applied("flattenObject") =>
        LET flat == coreOut[2]
            leaves == LeafPaths(coreArgs[2], "")
        IN  /\ DistinctKeys(flat)
            /\ \A i \in DOMAIN flat : IsLeaf(flat[i][2])
            /\ \A l \in leaves : HasOwn(flat, l[1]) /\ GetOwn(flat, l[1]) = l[2]
            /\ Keys(flat) = {l[1] : l \in leaves}

\* ------------------------------------------------------------------------
\* C17
\* ------------------------------------------------------------------------

\* Every leaf of the tree is a primitive.
RECURSIVE PrimitiveOnly(_)
PrimitiveOnly(o) ==
    \A i \in DOMAIN o :
        \/ o[i][2][1] = "prim"
        \/ IsPlain(o[i][2]) /\ PrimitiveOnly(o[i][2][2])

\* The names without a ".", and the lists of them a key splits into.
PathSegments == {"a", "b"}

RECURSIVE SegmentLists(_)
SegmentLists(n) ==
    IF n = 0 THEN {<<>>}
    ELSE SegmentLists(n - 1) \cup
         {<<x>> \o rest : x \in PathSegments,
                          rest \in {r \in SegmentLists(n - 1) : Len(r) = n - 1}}

RECURSIVE JoinSegments(_)
JoinSegments(segs) ==
    IF Len(segs) = 1 THEN segs[1]
    ELSE segs[1] \o "." \o JoinSegments(Tail(segs))

\* key.split(".")
SplitKey(key) ==
    CHOOSE segs \in SegmentLists(2 * (MaxFlatProps + 1)) :
        segs # <<>> /\ JoinSegments(segs) = key

\* The object with `value` set at the path `segs`, the objects on the way
\* made where there are none.
RECURSIVE SetPath(_, _, _)
SetPath(o, segs, value) ==
    IF Len(segs) = 1 THEN Put(o, segs[1], value)
    ELSE LET child == IF HasOwn(o, segs[1]) /\ IsPlain(GetOwn(o, segs[1]))
                      THEN GetOwn(o, segs[1])[2]
                      ELSE EmptyObj
         IN  Put(o, segs[1], ObjVal(SetPath(child, Tail(segs), value)))

\* Un-flattening: each key split on "." and the nesting rebuilt.
Unflatten(flat) ==
    LET loop[i \in 0..Len(flat)] ==
            IF i = 0 THEN EmptyObj
            ELSE SetPath(loop[i - 1], SplitKey(flat[i][1]), flat[i][2])
    IN  loop[Len(flat)]

\* The same structure: the same keys, with the same values at every depth.
RECURSIVE SameStructure(_, _)
SameStructure(x, y) ==
    /\ Keys(x) = Keys(y)
    /\ \A k \in Keys(x) :
           IF IsPlain(GetOwn(x, k)) /\ IsPlain(GetOwn(y, k))
           THEN SameStructure(GetOwn(x, k)[2], GetOwn(y, k)[2])
           ELSE GetOwn(x, k) = GetOwn(y, k)

\* C17: for every object tree whose leaves are all primitives (empty nested
\* objects and keys with a "." in them included), un-flattening the result
\* of flattenObject recovers the original structure.
C17_FlattenRoundTrips ==
    (Applied("flattenObject") /\ PrimitiveOnly(coreArgs[2])) =>
        SameStructure(Unflatten(coreOut[2]), coreArgs[2])

\* ------------------------------------------------------------------------
\* C18
\* ------------------------------------------------------------------------

\* The reference: each key of data, in insertion order, is written to the
\* destination the map defines for it, or to itself when the map defines
\* none; a later write to a destination replaces an earlier one.
ReferenceMapping(data, map) ==
    LET loop[i \in 0..Len(data)] ==
            IF i = 0 THEN EmptyObj
            ELSE LET k == data[i][1]
                     destination == IF k \in Keys(map) THEN GetOwn(map, k) ELSE k
                 IN  Put(loop[i - 1], destination, data[i][2])
    IN  loop[Len(data)]

\* C18: applyMapping(data, fieldMap) is data when fieldMap is absent, and
\* otherwise the reference mapping, for every key name: a key the map
\* defines goes to its destination, any other key to itself, values as they
\* are, the later of two keys with one destination winning.
C18_MappingMatchesReference ==
    Applied("applyMapping") =>
        LET data == coreArgs[2]
            fieldMap == coreArgs[3]
        IN  IF fieldMap.given
            THEN coreOut[2] = ReferenceMapping(data, fieldMap.map)
            ELSE coreOut[2] = data

\* ------------------------------------------------------------------------
\* C19
\* ------------------------------------------------------------------------

\* What processJsonData made of the input by parse, flatten and map: what
\* transform is called with, and the data of the pipeline without transform.
MappedData(p) ==
    IF "transform" \in opts.has
    THEN LET i == CHOOSE j \in DOMAIN inv[p].trace :
                      inv[p].trace[j] = EvData("transform", "start", inv[p].trace[j].data)
         IN  inv[p].trace[i].data
    ELSE inv[p].data

\* The input is an object, given as text or as it is, that parseJson lets
\* through.
InputDoc(p) ==
    IF inv[p].input[1] = "string" THEN inv[p].input[2][2][2] ELSE inv[p].input[2]

Mapped(p) ==
    /\ Started(p)
    /\ Count(p, "map") = 2
    /\ opts.flatten # "false"
    /\ opts.fieldMap.given

\* Every leaf of the input has a destination in the field map.
FullyMapped(p) ==
    \A l \in LeafPaths(InputDoc(p), "") : l[1] \in Keys(opts.fieldMap.map)

JaneDoe ==
    <<<<"firstName", Prim("Jane")>>, <<"lastName", Prim("Doe")>>,
      <<"email", Prim("j@x.com")>>>>

IsCallbackEvent(e) == e.fn \in Callbacks

\* C20: from the same container value with top-level fields, the same input
\* and options, under the strategies merge, strict and replace, the three
\* bindings leave the container with equal field values, invoke the same
\* callbacks in the same order and return the same boolean.
C20_BindingsAgree ==
    Applied("processJson") =>
        \A b1, b2 \in Bindings :
            LET x == coreOut[2][b1]
                y == coreOut[2][b2]
            IN  /\ SameObj(x.container, y.container)
                /\ SelectSeq(x.rec.trace, IsCallbackEvent) =
                       SelectSeq(y.rec.trace, IsCallbackEvent)
                /\ x.rec.result = y.rec.result

\* ------------------------------------------------------------------------
\* C21
\* ------------------------------------------------------------------------

\* C21 as stated: if an initial value was provided at setup, every reset()
\* gives that value to the state setter and returns true, after any
\* processJson calls; if none was provided, reset() returns false and does
\* not call the setter.
C21_ResetRestoresSetupValue ==
    \A i \in DOMAIN resets :
        IF setupInitialData.given
        THEN /\ resets[i].ret
             /\ resets[i].set
             /\ resets[i].value = setupInitialData.value
        ELSE ~resets[i].ret /\ ~resets[i].set

\* C21 as amended: reset() sets the container to the initial value the hook
\* was given at its latest render and returns true, after any processJson
\* calls; if the hook was given none at its latest render, reset() returns
\* false, does not call the setter and leaves the container as it is.
C21_ResetRestoresLatestInitialData ==
    [][resets' # resets =>
          LET call == resets'[Len(resets')]
          IN  IF initialDataRef.given
              THEN /\ call = ResetCall(TRUE, TRUE, initialDataRef.value)
                   /\ container' = initialDataRef.value
              ELSE /\ call = ResetCall(FALSE, FALSE, EmptyObj)
                   /\ container' = container]_vars

\* After a processJson that filled the container, reset() has restored the
\* initial value of a later render.
C21_Witness ==
    /\ resets # <<>>
    /\ resets[Len(resets)].ret
    /\ initialDataRef # setupInitialData
    /\ container = initialDataRef.value
    /\ \E p \in Procs : inv[p].result = "true"

\* ------------------------------------------------------------------------
\* C22, C23, C24
\* ------------------------------------------------------------------------

\* The files of the event, once a file adapter that is not disabled has
\* handled it.
HandledFiles ==
    IF /\ coreArgs[1] \in {"handleChange", "handleDrop"}
       /\ coreOut # Unused
       /\ ~ioOptions.disabled
    THEN coreArgs[2]
    ELSE <<>>

\* The events of the log that are a call of fn on the i-th file.
IoCalls(fn, i) ==
    {n \in DOMAIN ioLog : ioLog[n].fn = fn /\ ioLog[n].file = i}

\* C22: in the uploader and in the drop adapter, a JSON-typed file larger
\* than maxFileSize (1,048,576 when the option is absent) makes onError, if
\* supplied, be called exactly once, with FILE_TOO_LARGE; its read is not
\* started and onJsonLoaded is never called for it.  A JSON-typed file of
\* exactly maxFileSize, or smaller, is read.
C22_SizeGuard ==
    \A i \in DOMAIN HandledFiles :
        LET file == HandledFiles[i]
            limit == IF ioOptions.maxFileSize.given
                     THEN ioOptions.maxFileSize.value
                     ELSE 1048576
        IN  isJsonFile(file) =>
                IF file.size > limit
                THEN /\ ioOptions.hasOnError =>
                            Cardinality(IoCalls("onError", i)) = 1
                     /\ \A n \in IoCalls("onError", i) :
                            ioLog[n].code = "FILE_TOO_LARGE"
                     /\ IoCalls("readAsText", i) = {}
                     /\ IoCalls("onJsonLoaded", i) = {}
                     /\ i \notin ioReading
                ELSE Cardinality(IoCalls("readAsText", i)) = 1

\* A file of exactly the default maximum was read and loaded, next to one
\* too large that was reported.
C22_Witness ==
    /\ Len(HandledFiles) = 2
    /\ ~ioOptions.maxFileSize.given
    /\ ioOptions.hasOnError
    /\ HandledFiles[1].size = 1048577
    /\ isJsonFile(HandledFiles[1])
    /\ IoCalls("onError", 1) # {}
    /\ HandledFiles[2].size = 1048576
    /\ IoCalls("onJsonLoaded", 2) # {}

\* C23: in both adapters, a file whose name does not end in ".json" and
\* whose type is not "application/json" is rejected with INVALID_FILE_TYPE
\* given to onError, if supplied (for the file, or for the drop as a whole),
\* and is never read, also when it comes together with JSON files.
C23_TypeGuard ==
    \A i \in DOMAIN HandledFiles :
        LET file == HandledFiles[i]
        IN  (~endsWith(file.name, ".json") /\ file.type # "application/json")
            => /\ ioOptions.hasOnError =>
                      \E n \in DOMAIN ioLog :
                          /\ ioLog[n].fn = "onError"
                          /\ ioLog[n].code = "INVALID_FILE_TYPE"
                          /\ ioLog[n].file \in {0, i}
               /\ IoCalls("readAsText", i) = {}
               /\ IoCalls("onJsonLoaded", i) = {}

\* The calls of a callback in the log.
IoCallsOf(fn) == {n \in DOMAIN ioLog : ioLog[n].fn = fn}

\* C24: the paste adapter, enabled, calls no callback when the trimmed text
\* is empty or starts with neither "{" nor "["; when the text starts so and
\* parses, it calls onJsonPasted exactly once with the text and does not call
\* onError; when the text starts so and does not parse, it calls onError, if
\* supplied, exactly once with PARSE_ERROR and does not call onJsonPasted;
\* disabled, it calls no callback.
C24_PasteFilter ==
    (coreArgs[1] = "handlePaste" /\ coreOut # Unused) =>
        LET text == trim(coreArgs[2])
            looksLikeJson == startsWith(text, "{") \/ startsWith(text, "[")
        IN  IF ~ioOptions.enabled \/ text = <<>> \/ ~looksLikeJson
            THEN ioLog = <<>>
            ELSE IF jsonParses(text)
            THEN /\ Cardinality(IoCallsOf("onJsonPasted")) = 1
                 /\ \A n \in IoCallsOf("onJsonPasted") : ioLog[n].data = text
                 /\ IoCallsOf("onError") = {}
            ELSE /\ ioOptions.hasOnError =>
                        Cardinality(IoCallsOf("onError")) = 1
                 /\ \A n \in IoCallsOf("onError") :
                        ioLog[n].code = "PARSE_ERROR"
                 /\ IoCallsOf("onJsonPasted") = {}

\* ------------------------------------------------------------------------
\* C25
\* ------------------------------------------------------------------------

\* The events of an invocation that are calls or starts of one of fns.
EventsOf(p, fns) == SelectSeq(inv[p].trace, LAMBDA e : e.fn \in fns)

\* The object the Mapper returned, computed anew from the input.
MapperOutput(p) ==
    applyMapping(IF opts.flatten # "false" THEN flattenObject(InputDoc(p))
                 ELSE InputDoc(p),
                 opts.fieldMap)

\* C25: transform, if supplied, is called with the mapped object; what it
\* returns (the mapped object itself when no transform is supplied) is what
\* validate and onBeforeFill receive, what processJsonData returns as data,
\* what the binding applies and what onAfterFill and onSuccess receive.
C25_WorkingValueThreaded ==
    \A p \in Procs :
        (Started(p) /\ Count(p, "map") = 2) =>
            LET mapped == MapperOutput(p)
                working == IF "transform" \in opts.has
                           THEN Put(mapped, "name", Prim("JANE"))
                           ELSE mapped
                starts(fns) ==
                    SelectSeq(EventsOf(p, fns), LAMBDA e : e.ph \in {"start", "call"})
            IN  /\ \A i \in DOMAIN starts({"transform"}) :
                       starts({"transform"})[i].data = mapped
                /\ \A i \in DOMAIN starts({"validate", "onBeforeFill",
                                           "onAfterFill", "onSuccess"}) :
                       starts({"validate", "onBeforeFill", "onAfterFill",
                               "onSuccess"})[i].data = working
                /\ (inv[p].pc \in Over /\ inv[p].error = NoErr) =>
                       inv[p].data = working
                /\ MutatorEvents(p) # <<>> =>
                       /\ inv[p].data = working
                       /\ binding = "useJsonAutoFill" =>
                              MutatorEvents(p)[1].data = working

\* An invocation whose transform changed the mapped object has passed the
\* changed object through validate, onBeforeFill, the binding and the two
\* callbacks after it.
C25_Witness ==
    \E p \in Procs :
        /\ inv[p].pc = "done"
        /\ inv[p].result = "true"
        /\ binding = "useJsonAutoFill"
        /\ {"transform", "validate", "onBeforeFill", "onAfterFill",
            "onSuccess"} \subseteq opts.has
        /\ Count(p, "onSuccess") = 1
        /\ inv[p].data # MapperOutput(p)
        /\ MutatorEvents(p)[1].data = inv[p].data

\* ------------------------------------------------------------------------
\* C26
\* ------------------------------------------------------------------------

\* The document given to processJsonData, as text or as it is.
PipelineDoc ==
    IF coreArgs[2][1] = "string" THEN coreArgs[2][2][2][2] ELSE coreArgs[2][2]

\* The Flattener ran in the call of processJsonData.
FlattenerRan ==
    \E i \in DOMAIN coreOut[2].trace : coreOut[2].trace[i].fn = "flatten"

\* The options were given with flatten exactly false.
FlattenIsFalse == coreArgs[3].given /\ coreArgs[3].flatten = "false"

\* C26: the Flattener is skipped only when options.flatten is exactly false;
\* with the options absent, or flatten absent, undefined or true, it runs and
\* the Mapper is given its output.  With flatten false the Mapper is given
\* the parsed object as it is: the values keep their nesting and the field
\* map renames top-level keys only.
C26_FlattenSkippedOnlyOnFalse ==
    Applied("processJsonData") =>
        LET doc == PipelineDoc
            fieldMap == IF coreArgs[3].given THEN coreArgs[3].fieldMap ELSE NoMap
            data == coreOut[2].data
        IN  /\ coreOut[2].error = NoErr
            /\ FlattenerRan <=> ~FlattenIsFalse
            /\ IF FlattenIsFalse
               THEN /\ data = applyMapping(doc, fieldMap)
                    /\ {data[i][2] : i \in DOMAIN data} =
                       {doc[i][2] : i \in DOMAIN doc}
                    /\ {data[i][1] : i \in DOMAIN data} =
                       {mappedKeyOf(fieldMap.map, doc[i][1]) : i \in DOMAIN doc}
               ELSE data = applyMapping(flattenObject(doc), fieldMap)

\* With flatten false a nested value came through as it was, under the name
\* the field map gives its top-level key.
C26_Witness ==
    /\ Applied("processJsonData")
    /\ FlattenIsFalse
    /\ coreArgs[3].fieldMap = FieldMap(<<<<"a", "x">>>>)
    /\ \E i \in DOMAIN coreOut[2].data :
          /\ coreOut[2].data[i][1] = "x"
          /\ coreOut[2].data[i][2][1] = "obj"

\* ------------------------------------------------------------------------
\* C27
\* ------------------------------------------------------------------------

\* The mutator calls of the binding's processJson, in order.
RHFCalls == SelectSeq(coreOut[2].rec.trace, IsMutatorEvent)

\* C27: the React Hook Form binding, under deep as under merge, calls
\* setValue once per key of the incoming object with the incoming value, so
\* that a form value that is a plain object is overwritten and not merged;
\* under strict it calls setValue only for the incoming keys present in
\* getValues(); under replace it calls reset(data) and never setValue.
C27_RHFMutatorCalls ==
    Applied("useJsonAutoFillRHF.processJson") =>
        LET values == coreArgs[2]
            data == coreArgs[3][2]
            strat == IF coreArgs[4].mergeStrategy = "absent" THEN "merge"
                     ELSE coreArgs[4].mergeStrategy
            calls == RHFCalls
            keysSet == {calls[i].data[1][1] : i \in DOMAIN calls}
        IN  CASE strat = "replace" ->
                    calls = <<EvData("reset", "call", data)>>
              [] strat = "strict" ->
                    /\ OneCallPerField(calls, "setValue", data)
                    /\ keysSet = {k \in Keys(data) : HasOwn(values, k)}
              [] OTHER ->
                    /\ OneCallPerField(calls, "setValue", data)
                    /\ keysSet = Keys(data)
                    /\ \A k \in Keys(data) :
                           GetOwn(coreOut[2].container, k) = GetOwn(data, k)

\* ------------------------------------------------------------------------
\* C28
\* ------------------------------------------------------------------------

\* How often a callback the options supply was invoked (0 or more), where
\* once is wanted: once if it is supplied.
Once(p, fn) == Count(p, fn) = (IF fn \in opts.has THEN 1 ELSE 0)

\* (a) the mutation was issued, onAfterFill and onSuccess were each invoked
\* once, onError was not, and the result is true.
OutcomeApplied(p) ==
    /\ MutatorEvents(p) # <<>>
    /\ Once(p, "onAfterFill")
    /\ Once(p, "onSuccess")
    /\ Count(p, "onError") = 0
    /\ inv[p].result = "true"

\* (b) no mutation was issued, onError was invoked once, the result is false.
OutcomeFailed(p) ==
    /\ MutatorEvents(p) = <<>>
    /\ Once(p, "onError")
    /\ Count(p, "onAfterFill") = 0
    /\ Count(p, "onSuccess") = 0
    /\ inv[p].caught # NoErr
    /\ inv[p].result = "false"

\* (c) no mutation was issued, no callback after the gate was invoked, the
\* result is false.
OutcomeCancelled(p) ==
    /\ MutatorEvents(p) = <<>>
    /\ LateEvents(p) = <<>>
    /\ inv[p].cancelled
    /\ inv[p].caught = NoErr
    /\ inv[p].result = "false"

\* C28: a completed processJson ends in exactly one of the outcomes applied,
\* failed and cancelled; its result is true exactly when a mutation of the
\* container was issued; onError and onSuccess are never both invoked.
C28_OutcomeExclusive ==
    \A p \in Procs :
        inv[p].pc = "done" =>
            /\ Cardinality({o \in {"applied", "failed", "cancelled"} :
                               CASE o = "applied" -> OutcomeApplied(p)
                                 [] o = "failed" -> OutcomeFailed(p)
                                 [] OTHER -> OutcomeCancelled(p)}) = 1
            /\ (inv[p].result = "true") <=> (MutatorEvents(p) # <<>>)
            /\ ~(Count(p, "onError") > 0 /\ Count(p, "onSuccess") > 0)

\* ------------------------------------------------------------------------
\* C29, C30
\* ------------------------------------------------------------------------

Succeeded(p) == inv[p].pc = "done" /\ inv[p].result = "true"

\* Both invocations succeeded, and each had started before the other one's
\* mutation.
OverlappedAndSucceeded ==
    /\ \A p \in Procs : Succeeded(p) /\ inv[p].values = InitialContainer
    /\ inv["A"].data # inv["B"].data

\* C29: in the plain-state binding under merge, strict and deep, the
\* mutation of each succeeding invocation is the merge of its data into the
\* state as it is at that time, so that after two overlapping invocations the
\* state is what the two merges make in the order of their application; under
\* merge it then holds every key of both incoming objects.
C29_NoLostUpdatePlain ==
    [][(binding = "useJsonAutoFill" /\ Strategy # "replace") =>
          \A p \in Procs :
              (~Succeeded(p) /\ inv'[p].pc = "done" /\ inv'[p].result = "true") =>
                  /\ container' =
                         CASE Strategy = "merge" ->
                                  Spread(container, inv[p].data)
                           [] Strategy = "strict" ->
                                  mergeStrict(container, inv[p].data)
                           [] OTHER -> deepMerge(container, inv[p].data)
                  /\ \A q \in Procs :
                         (Succeeded(q) /\ Strategy = "merge") =>
                             (Keys(inv[p].data) \cup Keys(inv[q].data))
                                 \subseteq Keys(container')]_vars

\* Two overlapping invocations with different data have succeeded in the
\* plain-state binding under merge, and the state holds the keys of both.
C29_Witness ==
    /\ binding = "useJsonAutoFill"
    /\ Strategy = "merge"
    /\ OverlappedAndSucceeded
    /\ Keys(inv["A"].data) \cap Keys(inv["B"].data) = {}
    /\ (Keys(inv["A"].data) \cup Keys(inv["B"].data)) \subseteq Keys(container)

\* C30: in the Formik binding under merge or deep, after two overlapping
\* invocations with disjoint incoming keys have succeeded, the form values
\* hold the keys of both, whatever the interleaving.
C30_NoLostUpdateFormik ==
    (/\ binding = "useJsonAutoFillFormik"
     /\ Strategy \in {"merge", "deep"}
     /\ \A p \in Procs : Succeeded(p)
     /\ Keys(inv["A"].data) \cap Keys(inv["B"].data) = {})
        => (Keys(inv["A"].data) \cup Keys(inv["B"].data)) \subseteq Keys(container)

\* ------------------------------------------------------------------------
\* C31
\* ------------------------------------------------------------------------

\* The value processJson was given: the value of the JSON text, or the
\* object.
InputValue(p) ==
    IF inv[p].input[1] = "string" THEN inv[p].input[2][2]
    ELSE ObjVal(inv[p].input[2])

\* C31: whether the input is JSON text or an object, data with a key
\* "__proto__", "constructor" or "prototype" at any depth, and data that is
\* not an object at its top, is rejected with PARSE_ERROR and reaches neither
\* transform, validate, onBeforeFill nor the container.
C31_ReservedKeysBothForms ==
    \A p \in Procs :
        (/\ Started(p)
         /\ inv[p].input[1] = "string" => inv[p].input[2][1] = "json")
        => ((HasReservedKey(InputValue(p)) \/ InputValue(p)[1] # "obj")
            => /\ IsParseError(inv[p].error)
               /\ Count(p, "transform") = 0
               /\ Count(p, "validate") = 0
               /\ Count(p, "onBeforeFill") = 0
               /\ MutatorEvents(p) = <<>>)

\* ------------------------------------------------------------------------
\* C32
\* ------------------------------------------------------------------------

\* C32: with flatten enabled and no transform, no value of the pipeline's
\* output is a plain object, and merging the output into any state gives the
\* same state under "deep" as under "merge".
C32_DeepIsMergeAfterFlatten ==
    Applied("mergeData(processJsonData)") =>
        LET data == coreOut[2].data
        IN  /\ \A i \in DOMAIN data : data[i][2][1] # "obj"
            /\ coreOut[2].deep = coreOut[2].merge

\* The document as it was given would merge differently under the two
\* strategies into the state, which holds a plain object where the document
\* does; the pipeline's output merges alike.
C32_Witness ==
    /\ Applied("mergeData(processJsonData)")
    /\ LET doc == IF coreArgs[3][1] = "string" THEN coreArgs[3][2][2][2]
                  ELSE coreArgs[3][2]
       IN  \E i \in DOMAIN doc, j \in DOMAIN coreArgs[2] :
              /\ doc[i][1] = coreArgs[2][j][1]
              /\ doc[i][2][1] = "obj"
              /\ coreArgs[2][j][2][1] = "obj"
              /\ doc[i][2][2] # EmptyObj
              /\ doc[i][2] # coreArgs[2][j][2]
    /\ coreOut[2].data # EmptyObj
    /\ coreOut[2].deep = coreOut[2].merge

====
